---- MODULE Spec2Model ----
(***************************************************************************)
(* UniversalHardwareMonitor of pc_tool_manager_complete.py: the metric     *)
(* cache, the detection chain, the synthetic sensor generator, the         *)
(* telemetry refresh and the fan status model.                             *)
(*                                                                         *)
(* Units.  Temperatures are integers in millidegrees Celsius (35.0 C is    *)
(* 35000), time is in whole seconds (cache_duration 2.0 s is 2),            *)
(* utilisation is in percent, clock frequency in MHz, fan speed in RPM.    *)
(* random.uniform(a, b) is a choice among sample points of [a, b] that     *)
(* include both end points.                                                *)
(***************************************************************************)
EXTENDS Integers, Sequences, FiniteSets, TLC

VARIABLES
    host,                   \* the machine the program runs on
    sensors,                \* self.sensors: key -> sensor record
    fan_status,             \* self.fan_status: fan id -> fan record
    last_cpu_check,         \* self.last_cpu_check
    last_memory_check,      \* self.last_memory_check
    cached_cpu_percent,     \* self.cached_cpu_percent
    cached_memory_percent,  \* self.cached_memory_percent
    now,                    \* time.time()
    ret,                    \* the last call: its name, arguments and result
    held,                   \* the map a caller keeps from an earlier call
    app                     \* the application window: frame, flags, timers, thread

vars == <<host, sensors, fan_status, last_cpu_check, last_memory_check,
          cached_cpu_percent, cached_memory_percent, now, ret, held, app>>

cacheVars == <<last_cpu_check, last_memory_check,
               cached_cpu_percent, cached_memory_percent>>

----------------------------------------------------------------------------
(* Generic helpers *)

Max2(a, b) == IF a >= b THEN a ELSE b

Min2(a, b) == IF a <= b THEN a ELSE b

\* max(lo, min(hi, x)) as the source writes every clamp
Clamp(lo, hi, x) == Max2(lo, Min2(hi, x))

Abs(x) == IF x < 0 THEN -x ELSE x

Range(s) == {s[i] : i \in 1..Len(s)}

----------------------------------------------------------------------------
(* IEEE-754 double arithmetic for the two float expressions whose result  *)
(* is truncated by int(): (speed_percent / 100.0) * max_rpm and           *)
(* (current_rpm / max_rpm) * 100.  A positive double is its 53-bit        *)
(* significand m (most significant bit first) and the exponent e of the   *)
(* last bit: the value is m * 2^e.                                         *)

MantBits == 53

\* binary digits of n >= 0, most significant first (<<>> for 0)
IntBits(n) ==
    LET len == IF n = 0 THEN 0 ELSE CHOOSE k \in 1..31 : 2^(k-1) <= n /\ n \div 2^(k-1) < 2
    IN  [j \in 1..len |-> (n \div 2^(len - j)) % 2]

\* the binary digits of n >= 0 written with exactly w digits
PadBits(n, w) == [j \in 1..w |-> (n \div 2^(w - j)) % 2]

RECURSIVE BitsInt(_)
\* the number written by the binary digits b, most significant first
BitsInt(b) ==
    IF Len(b) = 0 THEN 0
    ELSE 2 * BitsInt(SubSeq(b, 1, Len(b) - 1)) + b[Len(b)]

\* b + 1 on binary digits; the result is one digit longer on overflow
IncBits(b) ==
    LET zeros == {i \in 1..Len(b) : b[i] = 0}
    IN  IF zeros = {} THEN <<1>> \o [i \in 1..Len(b) |-> 0]
        ELSE LET k == CHOOSE i \in zeros : \A j \in zeros : j <= i
             IN  [i \in 1..Len(b) |-> IF i < k THEN b[i] ELSE IF i = k THEN 1 ELSE 0]

\* round-half-to-even of the significand m given the dropped part:
\* guard is the first dropped bit, sticky tells whether more follows
RoundEven(m, e, guard, sticky) ==
    LET up == guard = 1 /\ (sticky \/ m[Len(m)] = 1)
        r  == IF up THEN IncBits(m) ELSE m
    IN  IF Len(r) > MantBits
        THEN [m |-> SubSeq(r, 1, MantBits), e |-> e + 1]
        ELSE [m |-> r, e |-> e]

RECURSIVE Pow2Mod(_, _)
\* 2^i modulo b, by repeated squaring
Pow2Mod(i, b) ==
    IF i = 0 THEN 1 % b
    ELSE LET h == Pow2Mod(i \div 2, b)
         IN  (((h * h) % b) * (IF i % 2 = 1 THEN 2 ELSE 1)) % b

\* the remainder of the long division a / b after i fraction digits
FracRem(a, b, i) == ((a % b) * Pow2Mod(i, b)) % b

\* the i-th binary fraction digit of a / b, i >= 1
FracBit(a, b, i) == (2 * FracRem(a, b, i - 1)) \div b

\* the double nearest to a / b, for integers a > 0, b > 0
FloatDiv(a, b) ==
    LET ib    == IntBits(a \div b)
        zeros == IF Len(ib) > 0 THEN 0
                 ELSE CHOOSE z \in 0..31 :
                        /\ FracBit(a, b, z + 1) = 1
                        /\ \A j \in 1..z : FracBit(a, b, j) = 0
        shift == zeros + MantBits - Len(ib)
        m     == ib \o [i \in 1..(MantBits - Len(ib)) |-> FracBit(a, b, zeros + i)]
        rem   == FracRem(a, b, shift)
    IN  RoundEven(m, -shift, IF 2 * rem >= b THEN 1 ELSE 0, 2 * rem > b)

\* the binary digits of m * c for a 53-digit m and 0 < c < 2^15, by limbs
\* of 15 digits
MulBits(m, c) ==
    LET B  == 2^15
        l0 == BitsInt(SubSeq(m, 39, 53))
        l1 == BitsInt(SubSeq(m, 24, 38))
        l2 == BitsInt(SubSeq(m, 9, 23))
        l3 == BitsInt(SubSeq(m, 1, 8))
        t0 == l0 * c
        t1 == l1 * c + t0 \div B
        t2 == l2 * c + t1 \div B
        t3 == l3 * c + t2 \div B
    IN  IntBits(t3) \o PadBits(t2 % B, 15) \o PadBits(t1 % B, 15)
                    \o PadBits(t0 % B, 15)

\* the double nearest to x * c, for a double x > 0 and an integer c > 0
FloatMulInt(x, c) ==
    LET p == MulBits(x.m, c)
        d == Len(p) - MantBits
    IN  IF d = 0 THEN [m |-> p, e |-> x.e]
        ELSE RoundEven(SubSeq(p, 1, MantBits), x.e + d, p[MantBits + 1],
                       \E j \in (MantBits + 2)..Len(p) : p[j] = 1)

\* int(x) of a double x > 0 below 2^31
FloatTrunc(x) ==
    IF x.e >= 0 THEN BitsInt(x.m) * 2^x.e
    ELSE IF -x.e >= Len(x.m) THEN 0
    ELSE BitsInt(SubSeq(x.m, 1, Len(x.m) + x.e))

\* int((a / b) * c) as Python evaluates it in doubles; b > 0, c > 0
IntOfScaled(a, b, c) ==
    IF a = 0 THEN 0
    ELSE IF a > 0 THEN FloatTrunc(FloatMulInt(FloatDiv(a, b), c))
    ELSE -FloatTrunc(FloatMulInt(FloatDiv(-a, b), c))

----------------------------------------------------------------------------
(* Bounds of the model *)

\* time.time() at construction, in seconds
StartTime == 100

\* the clock is followed for this many seconds after construction
Horizon == 6

MaxTime == StartTime + Horizon

\* utilisation percentages the OS queries may report
PercentSamples == {0, 100}

\* speed_percent arguments callers pass to set_fan_speed
SpeedArgs == {-10, 29, 75, 90, 150}

\* fan_id arguments callers pass to set_fan_speed; "nonexistent" is no fan
FanArgs == {"cpu_fan", "case_fan_1", "nonexistent"}

\* relative positions inside the interval of a random.uniform draw,
\* in halves: 0 is the lower end, UniformSteps the upper end
UniformSteps == 2

\* the clock may advance inside a get_updated_sensors loop after every
\* SplitStride-th sensor
SplitStride == 3

----------------------------------------------------------------------------
(* Metric cache: lines 43-50 and 96-124 *)

\* self.cache_duration = 2.0, in seconds
cache_duration == 2

\* what the underlying psutil query does: raise, or report a percentage
QueryOutcomes ==
    {[ok |-> FALSE, v |-> 0]} \cup {[ok |-> TRUE, v |-> x] : x \in PercentSamples}

\* a mutant of the expiry test: a cached value lives twice as long
get_cached_cpu_percent_LongTTL(cached, last, t, q) ==
    LET expired == t - last > 2 * cache_duration
        stored  == expired /\ q.ok
    IN  [cached  |-> IF stored THEN q.v ELSE cached,
         last    |-> IF stored THEN t ELSE last,
         expired |-> t - last > cache_duration,
         queried |-> expired,
         ok      |-> expired => q.ok,
         raised  |-> FALSE,
         value   |-> IF stored THEN q.v ELSE cached]

\* a mutant of the store: the timestamp is written even when the query raised
get_cached_cpu_percent_StampOnFail(cached, last, t, q) ==
    LET expired == t - last > cache_duration
        stored  == expired /\ q.ok
    IN  [cached  |-> IF stored THEN q.v ELSE cached,
         last    |-> IF expired THEN t ELSE last,
         expired |-> expired,
         queried |-> expired,
         ok      |-> expired => q.ok,
         raised  |-> FALSE,
         value   |-> IF stored THEN q.v ELSE cached]

\* _get_cached_cpu_percent called at time t when psutil.cpu_percent does q:
\* the new cache fields, whether the query was issued, whether the call
\* raised (the bare except of line 106 swallows every exception) and the
\* value returned
get_cached_cpu_percent(cached, last, t, q) ==
    LET expired == t - last > cache_duration
        stored  == expired /\ q.ok
    IN  [cached  |-> IF stored THEN q.v ELSE cached,
         last    |-> IF stored THEN t ELSE last,
         expired |-> expired,
         queried |-> expired,
         ok      |-> expired => q.ok,
         raised  |-> FALSE,
         value   |-> IF stored THEN q.v ELSE cached]

\* _get_cached_memory_percent called at time t when psutil.virtual_memory does q
get_cached_memory_percent(cached, last, t, q) ==
    LET expired == t - last > cache_duration
        stored  == expired /\ q.ok
    IN  [cached  |-> IF stored THEN q.v ELSE cached,
         last    |-> IF stored THEN t ELSE last,
         expired |-> expired,
         queried |-> expired,
         ok      |-> expired => q.ok,
         raised  |-> FALSE,
         value   |-> IF stored THEN q.v ELSE cached]

\* a call of _get_cached_cpu_percent
GetCachedCpuPercent ==
    \E q \in QueryOutcomes :
        LET r == get_cached_cpu_percent(cached_cpu_percent, last_cpu_check, now, q)
        IN  /\ cached_cpu_percent' = r.cached
            /\ last_cpu_check' = r.last
            /\ ret' = [op |-> "_get_cached_cpu_percent", at |-> now,
                       age |-> now - last_cpu_check,
                       expired |-> r.expired, queried |-> r.queried,
                       ok |-> r.ok, raised |-> r.raised, value |-> r.value,
                       prev |-> cached_cpu_percent]
            /\ UNCHANGED <<host, held, app, sensors, fan_status, last_memory_check,
                           cached_memory_percent, now>>

\* a call of _get_cached_memory_percent
GetCachedMemoryPercent ==
    \E q \in QueryOutcomes :
        LET r == get_cached_memory_percent(cached_memory_percent,
                                           last_memory_check, now, q)
        IN  /\ cached_memory_percent' = r.cached
            /\ last_memory_check' = r.last
            /\ ret' = [op |-> "_get_cached_memory_percent", at |-> now,
                       age |-> now - last_memory_check,
                       expired |-> r.expired, queried |-> r.queried,
                       ok |-> r.ok, raised |-> r.raised, value |-> r.value,
                       prev |-> cached_memory_percent]
            /\ UNCHANGED <<host, held, app, sensors, fan_status, last_cpu_check,
                           cached_cpu_percent, now>>

\* one second passes
Elapse ==
    /\ now < MaxTime
    /\ now' = now + 1
    /\ UNCHANGED <<host, held, app, sensors, fan_status, cacheVars, ret>>

----------------------------------------------------------------------------
(* Fan status model: lines 1296-1392 and 1437-1462 *)

\* the point of [a, b] at relative position u / UniformSteps: one value
\* that random.uniform(a, b) can return
Uniform(a, b, u) == a + ((b - a) * u) \div UniformSteps

UniformPositions == 0..UniformSteps

\* _initialize_fan_status
initialize_fan_status ==
    [f \in {"cpu_fan", "gpu_fan", "case_fan_1", "case_fan_2", "case_fan_3"} |->
        CASE f = "cpu_fan" ->
               [current_rpm |-> 1200, current_speed |-> 60,
                max_rpm |-> 3000, status |-> "Normal"]
          [] f = "gpu_fan" ->
               [current_rpm |-> 1000, current_speed |-> 50,
                max_rpm |-> 3500, status |-> "Normal"]
          [] f = "case_fan_1" ->
               [current_rpm |-> 800, current_speed |-> 40,
                max_rpm |-> 2000, status |-> "Normal"]
          [] f = "case_fan_2" ->
               [current_rpm |-> 750, current_speed |-> 38,
                max_rpm |-> 2000, status |-> "Normal"]
          [] f = "case_fan_3" ->
               [current_rpm |-> 700, current_speed |-> 35,
                max_rpm |-> 2000, status |-> "Normal"]]

\* the status thresholds of lines 1384-1389
StatusOf(current_speed) ==
    IF current_speed > 80 THEN "High"
    ELSE IF current_speed > 60 THEN "Medium"
    ELSE "Normal"

\* a mutant of the variation: base_rpm is max_rpm itself, not 40 percent of it
VariedRpm_FullBase(max_rpm, factor, offset) ==
    (max_rpm * 10 * factor + offset * 10000) \div 10000

\* int(base_rpm * factor + offset) with base_rpm = max_rpm * 0.4, the factor
\* in thousandths and the offset in RPM (lines 1352-1373)
VariedRpm(max_rpm, factor, offset) ==
    (max_rpm * 4 * factor + offset * 10000) \div 10000

\* the unclamped current_rpm of one fan for the draws at positions u1, u2
DrawnRpm(fan_id, max_rpm, u1, u2) ==
    IF fan_id = "cpu_fan"
    THEN VariedRpm(max_rpm, Uniform(300, 800, u1), Uniform(-100, 200, u2))
    ELSE IF fan_id = "gpu_fan"
    THEN VariedRpm(max_rpm, Uniform(200, 900, u1), Uniform(-50, 150, u2))
    ELSE VariedRpm(max_rpm, Uniform(800, 1200, u1), Uniform(-30, 50, u2))

\* the arguments with which the model evaluates int((a / b) * c); their
\* results are computed once
ScaledArgs ==
    LET fs == initialize_fan_status
    IN  {<<p, 100, fs[f].max_rpm>> : p \in SpeedArgs, f \in DOMAIN fs}
        \cup {<<DrawnRpm(f, fs[f].max_rpm, u[1], u[2]), fs[f].max_rpm, 100>> :
                f \in DOMAIN fs, u \in UniformPositions \X UniformPositions}

ScaledMemo == [k \in ScaledArgs |-> IntOfScaled(k[1], k[2], k[3])]

\* int((a / b) * c), looked up where it was computed before
PyIntOfScaled(a, b, c) ==
    IF <<a, b, c>> \in ScaledArgs THEN ScaledMemo[<<a, b, c>>]
    ELSE IntOfScaled(a, b, c)

\* a mutant of the refresh: the status is left as it was
update_one_fan_KeepStatus(fan_id, fan_info, u1, u2) ==
    LET rpm   == DrawnRpm(fan_id, fan_info.max_rpm, u1, u2)
        speed == PyIntOfScaled(rpm, fan_info.max_rpm, 100)
    IN  [fan_info EXCEPT !.current_rpm = Clamp(200, fan_info.max_rpm, rpm),
                         !.current_speed = Clamp(10, 100, speed)]

\* a mutant of the refresh: the drawn values are stored as they are
update_one_fan_Unclamped(fan_id, fan_info, u1, u2) ==
    LET rpm   == DrawnRpm(fan_id, fan_info.max_rpm, u1, u2)
        speed == PyIntOfScaled(rpm, fan_info.max_rpm, 100)
    IN  [current_rpm |-> rpm, current_speed |-> speed,
         max_rpm |-> fan_info.max_rpm, status |-> StatusOf(speed)]

\* a mutant of the refresh: a fan that runs above 60 percent is left alone
update_one_fan_KeepFast(fan_id, fan_info, u1, u2) ==
    LET rpm   == DrawnRpm(fan_id, fan_info.max_rpm, u1, u2)
        speed == PyIntOfScaled(rpm, fan_info.max_rpm, 100)
    IN  IF fan_info.current_speed > 60 THEN fan_info
        ELSE [current_rpm |-> Clamp(200, fan_info.max_rpm, rpm),
              current_speed |-> Clamp(10, 100, speed),
              max_rpm |-> fan_info.max_rpm,
              status |-> StatusOf(Clamp(10, 100, speed))]

\* one iteration of the loop of _update_fan_status_real_time
update_one_fan(fan_id, fan_info, u1, u2) ==
    LET rpm   == DrawnRpm(fan_id, fan_info.max_rpm, u1, u2)
        speed == PyIntOfScaled(rpm, fan_info.max_rpm, 100)
        current_rpm   == Clamp(200, fan_info.max_rpm, rpm)
        current_speed == Clamp(10, 100, speed)
    IN  [current_rpm |-> current_rpm, current_speed |-> current_speed,
         max_rpm |-> fan_info.max_rpm, status |-> StatusOf(current_speed)]

\* _update_fan_status_real_time: every fan is recomputed
update_fan_status_real_time(fs, u1, u2) ==
    [f \in DOMAIN fs |-> update_one_fan(f, fs[f], u1, u2)]

\* get_fan_status: a refresh tick of the fans; returns self.fan_status
GetFanStatus ==
    \E u1 \in UniformPositions, u2 \in UniformPositions :
        LET fs0 == IF DOMAIN fan_status = {} THEN initialize_fan_status
                   ELSE fan_status
            fs1 == update_fan_status_real_time(fs0, u1, u2)
        IN  /\ fan_status' = fs1
            /\ ret' = [op |-> "get_fan_status", value |-> fs1, before |-> fan_status]
            /\ UNCHANGED <<host, held, app, sensors, cacheVars, now>>

\* a mutant of set_fan_speed: an unknown fan is added instead of refused
set_fan_speed_AddUnknown(fs, fan_id, speed_percent) ==
    [fans |-> [f \in DOMAIN fs \cup {fan_id} |->
                 IF f = fan_id
                 THEN [current_rpm |-> speed_percent, current_speed |-> speed_percent,
                       max_rpm |-> 2000, status |-> "Normal"]
                 ELSE fs[f]],
     result |-> fan_id \in DOMAIN fs]

\* set_fan_speed on the fan map fs: the new map and the returned flag
set_fan_speed(fs, fan_id, speed_percent) ==
    IF fan_id \in DOMAIN fs
    THEN [fans |-> [fs EXCEPT
                      ![fan_id].current_speed = speed_percent,
                      ![fan_id].current_rpm =
                          PyIntOfScaled(speed_percent, 100, fs[fan_id].max_rpm)],
          result |-> TRUE]
    ELSE [fans |-> fs, result |-> FALSE]

\* a call of set_fan_speed with a fan id of F and a speed of P
SetFanSpeedWith(F, P) ==
    \E fan_id \in F, speed_percent \in P :
        LET r == set_fan_speed(fan_status, fan_id, speed_percent)
        IN  /\ fan_status' = r.fans
            /\ ret' = [op |-> "set_fan_speed", fan_id |-> fan_id,
                       speed_percent |-> speed_percent, result |-> r.result]
            /\ UNCHANGED <<host, held, app, sensors, cacheVars, now>>

\* a call of set_fan_speed
SetFanSpeed == SetFanSpeedWith(FanArgs, SpeedArgs)

RECURSIVE set_all_fans_speed(_, _, _)
\* set_all_fans_speed: set_fan_speed for each fan id in turn
set_all_fans_speed(fs, ids, speed_percent) ==
    IF ids = {} THEN [fans |-> fs, results |-> <<>>]
    ELSE LET f    == CHOOSE x \in ids : TRUE
             r    == set_fan_speed(fs, f, speed_percent)
             rest == set_all_fans_speed(r.fans, ids \ {f}, speed_percent)
         IN  [fans    |-> rest.fans,
              results |-> [x \in {f} \cup DOMAIN rest.results |->
                             IF x = f THEN r.result ELSE rest.results[x]]]

\* a call of set_all_fans_speed
SetAllFansSpeed ==
    \E speed_percent \in SpeedArgs :
        LET r == set_all_fans_speed(fan_status, DOMAIN fan_status, speed_percent)
        IN  /\ fan_status' = r.fans
            /\ ret' = [op |-> "set_all_fans_speed", speed_percent |-> speed_percent,
                       result |-> r.results]
            /\ UNCHANGED <<host, held, app, sensors, cacheVars, now>>

----------------------------------------------------------------------------
(* Sensor maps.  A Python dict is the sequence of its entries in insertion *)
(* order, each a key and a sensor record.  A key is the sequence of the    *)
(* parts that sensor_key.split('_') gives ('cpu_core_0' is                 *)
(* <<"cpu", "core", "0">>); a method string is the sequence of its words.  *)
(* A sensor record carries 'current', 'method' and, where the source sets  *)
(* it, 'max'; 'name', 'type' and 'unit' are display text and left out.     *)

Keys(d) == {d[i].key : i \in 1..Len(d)}

Has(d, k) == \E i \in 1..Len(d) : d[i].key = k

Get(d, k) == d[CHOOSE i \in 1..Len(d) : d[i].key = k].info

\* dict(entries): a key keeps the place of its first entry and the value of
\* its last one
DictOf(e) ==
    LET idx    == [i \in 1..Len(e) |-> i]
        firsts == SelectSeq(idx, LAMBDA i : \A j \in 1..(i - 1) : e[j].key # e[i].key)
        lastOf(k) == CHOOSE i \in 1..Len(e) :
                        e[i].key = k /\ \A j \in (i + 1)..Len(e) : e[j].key # k
    IN  [n \in 1..Len(firsts) |->
            [key |-> e[firsts[n]].key, info |-> e[lastOf(e[firsts[n]].key)].info]]

\* d.update(e)
DictUpdate(d, e) == DictOf(d \o e)

Entry(k, r) == <<[key |-> k, info |-> r]>>

\* the entries a loop adds, pass after pass
RECURSIVE Flatten(_)
Flatten(ss) == IF Len(ss) = 0 THEN <<>> ELSE Head(ss) \o Flatten(Tail(ss))

\* str(i) for the numbers that occur in keys
Digits == <<"0", "1", "2", "3", "4", "5", "6", "7", "8", "9">>

ToStr(i) == Digits[i + 1]

\* int(s): the number, or -1 where int() raises ValueError
ParseInt(s) ==
    IF \E i \in 1..Len(Digits) : Digits[i] = s
    THEN (CHOOSE i \in 1..Len(Digits) : Digits[i] = s) - 1
    ELSE -1

\* 'pat' in sensor_key for a pattern that ends with '_', such as 'cpu_core_':
\* the parts of pat occur in a row and another part follows
HasPrefixParts(k, pat) ==
    \E i \in 1..Len(k) :
        /\ i + Len(pat) <= Len(k)
        /\ \A j \in 1..Len(pat) : k[i + j - 1] = pat[j]

\* 'word' in sensor_key for a word without '_', such as 'ssd'
HasPart(k, word) == \E i \in 1..Len(k) : k[i] = word

\* 'Simulated' in method
IsSimulated(method) == \E i \in 1..Len(method) : method[i] = "Simulated"

\* a random.uniform draw: the draws of one call all sit at position base,
\* except the draw that feeds the sensor `focus`, which sits at position at
Draws(keys) ==
    {[at |-> u, base |-> u, focus |-> <<>>] : u \in UniformPositions}
    \cup {j \in {[at |-> v, base |-> u, focus |-> k] :
                    u \in UniformPositions, k \in keys, v \in UniformPositions} :
            j.at # j.base}

\* the value of random.uniform(a, b) for the sensor k under the draw j
Rnd(j, k, a, b) == Uniform(a, b, IF k = j.focus THEN j.at ELSE j.base)

----------------------------------------------------------------------------
(* Detection strategy chain: lines 126-647.  A detector reads the machine  *)
(* h (what is installed and built in), the observation o of one            *)
(* detect_all_sensors call (utilisation, disk traffic, sensor readings)    *)
(* and the draw j of its random.uniform calls.                             *)

Real(current, max, method) == [current |-> current, max |-> max, method |-> method]

NoMax(current, method) == [current |-> current, method |-> method]

\* lines 133-148: psutil.sensors_temperatures(); an entry of h.temps is one
\* reading with the chip name, entry.current and entry.high (0 for None)
PsutilTemperatures(h) ==
    LET idx(i) == Cardinality({n \in 1..(i - 1) : h.temps[n].name = h.temps[i].name})
        e(i) == IF h.temps[i].current > 0
                THEN Entry(<<"psutil", h.temps[i].name, ToStr(idx(i))>>,
                           Real(h.temps[i].current,
                                IF h.temps[i].high # 0 THEN h.temps[i].high ELSE 80000,
                                <<"psutil.sensors_temperatures">>))
                ELSE <<>>
    IN  Flatten([i \in 1..Len(h.temps) |-> e(i)])

\* lines 155-162: the CPU package estimate of the psutil detector
PsutilPackageTemp(h, o) ==
    Clamp(30000, 85000, 35000 + h.cpu_freq * 4 + o.cpu_percent * 250)

\* _detect_psutil_sensors
detect_psutil_sensors(h, o, j) ==
    IF ~h.psutil THEN <<>>
    ELSE
    LET temps   == PsutilTemperatures(h)
        package == IF h.cpu_freq # 0
                   THEN Entry(<<"cpu", "package", "real">>,
                              Real(PsutilPackageTemp(h, o), 85000,
                                   <<"psutil", "(Load+Freq-based)">>))
                   ELSE <<>>
        core(i) == LET k == <<"cpu", "core", ToStr(i), "real">>
                       t == IF h.cpu_freq # 0
                            THEN PsutilPackageTemp(h, o) + Rnd(j, k, -2000, 4000)
                            ELSE 40000 + o.cpu_percent * 200
                   IN  [key |-> k,
                        info |-> Real(Clamp(28000, 90000, t), 90000,
                                      <<"psutil", "(Core-specific)">>)]
        cores   == [i \in 1..h.cpu_count |-> core(i - 1)]
        ram     == Entry(<<"ram", "real">>,
                         Real(Clamp(20000, 60000, 25000 + o.mem_percent * 150),
                              60000, <<"psutil", "(Usage-based)">>))
        disk    == IF o.disk_io < 0 THEN <<>>
                   ELSE Entry(<<"disk", "real">>,
                              Real(Clamp(25000, 55000,
                                         30000 + Min2(o.disk_io * 10, 20000)),
                                   55000, <<"psutil", "(IO-based)">>))
    IN  \* cpu_count None: range(None) raises, the outer except returns what
        \* was found before
        IF h.cpu_count = 0 THEN DictOf(temps \o package)
        ELSE DictOf(temps \o package \o cores \o ram \o disk)

\* lines 320-359: the disk drives of the WMI detector
WmiDisk(o, name) ==
    LET io_factor == IF o.disk_io < 0 THEN 0 ELSE Min2(o.disk_io * 10, 15000)
        ssd       == HasPart(name, "ssd") \/ HasPart(name, "nvme")
        base_temp == IF ssd THEN 28000 ELSE 35000
        max_temp  == IF ssd THEN 45000 ELSE 55000
    IN  [key  |-> <<"disk">> \o name,
         info |-> Real(Clamp(25000, max_temp, base_temp + io_factor), max_temp,
                       <<"WMI", "(Real", IF ssd THEN "SSD)" ELSE "HDD)">>)]

\* _detect_windows_hardware_info
detect_windows_hardware_info(h, o, j) ==
    IF ~h.wmi THEN <<>>
    ELSE
    LET board_temp == Clamp(25000, 45000,
                            28000 + (o.cpu_percent + o.mem_percent) * 40)
        board   == IF h.board
                   THEN Entry(<<"motherboard", "real">>,
                              Real(board_temp, 45000, <<"WMI", "(Real", "Board)">>))
                   ELSE <<>>
        chipset == IF h.ide
                   THEN LET k == <<"chipset", "real">>
                            t == IF h.board /\ h.psutil
                                 THEN board_temp + Rnd(j, k, 3000, 8000)
                                 ELSE 35000
                        IN  Entry(k, Real(Clamp(30000, 50000, t), 50000,
                                          <<"WMI", "(Real", "Chipset)">>))
                   ELSE <<>>
        psu     == IF h.system
                   THEN Entry(<<"psu", "real">>,
                              Real(Clamp(30000, 65000,
                                         35000 + (o.cpu_percent + o.mem_percent) * 75),
                                   65000, <<"WMI", "(Real", "PSU)">>))
                   ELSE <<>>
        disks   == IF o.disk_io = -2 THEN <<>>
                   ELSE [i \in 1..Len(h.disks) |-> WmiDisk(o, h.disks[i])]
    IN  \* `import psutil` raises at the first place that needs it and the
        \* outer except returns what was found before
        IF ~h.psutil THEN (IF h.board THEN <<>> ELSE chipset)
        ELSE DictOf(board \o chipset \o psu \o disks)

\* lines 619-629: the first number of value_str, converted to Celsius;
\* -1 where the regular expression finds no number
ThermalCelsius(value) ==
    IF \A i \in 1..Len(value) : ~value[i].num THEN -1
    ELSE LET first == CHOOSE i \in 1..Len(value) :
                          value[i].num /\ \A n \in 1..(i - 1) : ~value[n].num
             v     == value[first].v
         IN  IF v > 1000000 THEN v \div 10 - 273150
             ELSE IF v > 200000 THEN v - 273150
             ELSE v

\* a mutant of the loop: the first line with a colon that yields no sensor
\* ends the parsing
parse_thermal_output_StopAtBadLine(output, method_id) ==
    LET line(i) == output[i]
        accepted(i) == /\ line(i).colon
                       /\ ThermalCelsius(line(i).value) > 0
                       /\ ThermalCelsius(line(i).value) < 150000
        stopped(i) == \E n \in 1..i : line(n).colon /\ ~accepted(n)
        e(i) == IF accepted(i) /\ ~stopped(i)
                THEN Entry(method_id \o line(i).name,
                           NoMax(ThermalCelsius(line(i).value),
                                 <<"Windows", "Thermal", "Sensor">>))
                ELSE <<>>
    IN  DictOf(Flatten([i \in 1..Len(output) |-> e(i)]))

\* _parse_thermal_output
parse_thermal_output(output, method_id) ==
    LET line(i) == output[i]
        accepted(i) == /\ line(i).colon
                       /\ ThermalCelsius(line(i).value) > 0
                       /\ ThermalCelsius(line(i).value) < 150000
        e(i) == IF accepted(i)
                THEN Entry(method_id \o line(i).name,
                           NoMax(ThermalCelsius(line(i).value),
                                 <<"Windows", "Thermal", "Sensor">>))
                ELSE <<>>
    IN  DictOf(Flatten([i \in 1..Len(output) |-> e(i)]))

\* _detect_thermal_sensors: three PowerShell queries; a query that fails or
\* prints nothing is the empty output
detect_thermal_sensors(h) ==
    IF ~h.windows THEN <<>>
    ELSE DictUpdate(DictUpdate(parse_thermal_output(h.thermal[1], <<"thermal", "0">>),
                               parse_thermal_output(h.thermal[2], <<"thermal", "1">>)),
                    parse_thermal_output(h.thermal[3], <<"thermal", "2">>))

\* lines 415-476: the three sensors of one video adapter
GpuAdapter(o, j, gpu) ==
    LET gpu_temp == Clamp(25000, 80000,
                          30000 + Min2(gpu.ram_gb * 125, 10000)
                                + o.mem_percent * 150)
        kc == <<"gpu">> \o gpu.name \o <<"core">>
        km == <<"gpu">> \o gpu.name \o <<"memory">>
        kv == <<"gpu">> \o gpu.name \o <<"vrm">>
        method == <<"WMI", "(Real", "GPU)">>
    IN  Entry(kc, Real(gpu_temp, 80000, method))
        \o Entry(km, Real(Clamp(22000, 75000, gpu_temp + Rnd(j, km, -2000, 3000)),
                          75000, method))
        \o Entry(kv, Real(Clamp(28000, 85000, gpu_temp + Rnd(j, kv, 3000, 8000)),
                          85000, method))

\* _detect_gpu_info
detect_gpu_info(h, o, j) ==
    IF ~h.wmi \/ ~h.psutil THEN <<>>
    ELSE DictOf(Flatten([i \in 1..Len(h.gpus) |-> GpuAdapter(o, j, h.gpus[i])]))

\* str.upper() on the words that occur in CPU brand strings
Upper(w) ==
    CASE w = "Ryzen" -> "RYZEN"
      [] w = "Intel" -> "INTEL"
      [] w = "Intel(R)" -> "INTEL(R)"
      [] w = "Core" -> "CORE"
      [] OTHER -> w

\* lines 501-507: the base temperature chosen from the brand string
CpuBrandBase(brand) ==
    IF \E i \in 1..Len(brand) : Upper(brand[i]) = "AMD"
    THEN (IF \E i \in 1..Len(brand) : brand[i] = "Ryzen" THEN 42000 ELSE 40000)
    ELSE IF \E i \in 1..Len(brand) : Upper(brand[i]) = "Intel" THEN 38000
    ELSE 40000

\* _detect_cpu_specific: h.cpuinfo is whether py-cpuinfo is installed,
\* h.brand the words of brand_raw (none when the key is missing)
detect_cpu_specific(h, o) ==
    IF ~h.cpuinfo \/ ~h.psutil \/ Len(h.brand) = 0 THEN <<>>
    ELSE Entry(<<"cpuinfo", "temp">>,
               NoMax(Min2(CpuBrandBase(h.brand) + o.cpu_percent * 250, 80000),
                     <<"CPU", "Info", "+", "Load", "Estimation">>))

----------------------------------------------------------------------------
(* Simulated fallback generator: lines 649-1020 *)

Sim(current, detail) == [current |-> current, method |-> <<"Simulated">> \o detail]

\* lines 663-671
SimPackageTemp(h, o, j) ==
    Clamp(30000, 85000,
          35000 + (IF h.cpu_freq # 0 THEN (h.cpu_freq * 10) \div 3 ELSE 0)
                + o.cpu_percent * 200 + Rnd(j, <<"cpu", "package">>, -1000, 2000))

\* lines 689-717: cores and the additional logical threads
SimCpu(h, o, j) ==
    LET cpu_temp == SimPackageTemp(h, o, j)
        core(i) == LET k == <<"cpu", "core", ToStr(i)>>
                   IN  [key |-> k,
                        info |-> Sim(Clamp(28000, 90000,
                                           cpu_temp + Rnd(j, k, -2000, 4000)
                                           + (IF h.cpu_freq # 0
                                              THEN (h.cpu_freq * 5) \div 3 ELSE 0)),
                                     <<"(Core-specific)">>)]
        thread(i) == LET k == <<"cpu", "thread", ToStr(i)>>
                     IN  [key |-> k,
                          info |-> Sim(Clamp(27000, 88000,
                                             cpu_temp + Rnd(j, k, -1000, 3000)),
                                       <<"(Thread-specific)">>)]
    IN  [i \in 1..h.cpu_count |-> core(i - 1)]
        \o (IF h.cpu_count_logical > h.cpu_count
            THEN [i \in 1..(h.cpu_count_logical - h.cpu_count) |->
                     thread(h.cpu_count + i - 1)]
            ELSE <<>>)

\* line 725
RamBanks(h) == Max2(2, Min2(8, h.ram_total_gb \div 4))

\* lines 719-764; used/total is read as the utilisation in percent
SimRam(h, o, j) ==
    LET module(i) == LET k == <<"ram", "module", ToStr(i)>>
                     IN  [key |-> k,
                          info |-> Sim(Clamp(20000, 60000,
                                             25000 + o.mem_percent * 150
                                             + Rnd(j, k, -2000, 3000)),
                                       <<"(Usage-based)">>)]
        dimm(i) == LET k == <<"ram", "dimm", ToStr(i)>>
                   IN  [key |-> k,
                        info |-> Sim(Clamp(22000, 50000, 28000 + Rnd(j, k, -1000, 3000)),
                                     <<"(DIMM)">>)]
    IN  [i \in 1..RamBanks(h) |-> module(i - 1)]
        \o Entry(<<"ram", "controller">>,
                 Sim(Clamp(25000, 55000,
                           30000 + o.mem_percent * 100
                           + Rnd(j, <<"ram", "controller">>, -1000, 2000)),
                     <<"(Controller)">>))
        \o [i \in 1..4 |-> dimm(i - 1)]

\* lines 766-770
SimGpuTemp(o, j) ==
    Clamp(25000, 80000,
          30000 + (3 * o.mem_percent + 4 * o.cpu_percent) * 25
                + Rnd(j, <<"gpu", "core">>, -1000, 3000))

\* lines 787-841
SimGpu(o, j) ==
    LET gpu_temp == SimGpuTemp(o, j)
    IN  Entry(<<"gpu", "core">>, Sim(gpu_temp, <<"(Activity-based)">>))
        \o Entry(<<"gpu", "memory">>,
                 Sim(Clamp(22000, 75000, gpu_temp + Rnd(j, <<"gpu", "memory">>, -3000, 5000)),
                     <<"(GPU-based)">>))
        \o Entry(<<"gpu", "vrm">>,
                 Sim(Clamp(25000, 80000, gpu_temp + Rnd(j, <<"gpu", "vrm">>, 2000, 8000)),
                     <<"(GPU", "VRM)">>))
        \o Entry(<<"gpu", "hotspot">>,
                 Sim(Clamp(30000, 85000, gpu_temp + Rnd(j, <<"gpu", "hotspot">>, 5000, 12000)),
                     <<"(GPU", "Hot", "Spot)">>))
        \o Entry(<<"gpu", "fan">>,
                 Sim(Clamp(20000, 60000, gpu_temp - Rnd(j, <<"gpu", "fan">>, 5000, 15000)),
                     <<"(GPU", "Fan)">>))

\* lines 843-894
SimSystem(h, o, j) ==
    LET pcie(i) == LET k == <<"pcie", "slot", ToStr(i)>>
                   IN  [key |-> k,
                        info |-> Sim(30000 + Rnd(j, k, -1000, 3000), <<"(PCIe)">>)]
    IN  Entry(<<"motherboard">>,
              Sim(28000 + Rnd(j, <<"motherboard">>, 0, 8000), <<"(Ambient)">>))
        \o Entry(<<"chipset">>,
                 Sim(35000 + Rnd(j, <<"chipset">>, -2000, 5000), <<"(Chipset)">>))
        \o Entry(<<"southbridge">>,
                 Sim(32000 + Rnd(j, <<"southbridge">>, -1000, 4000), <<"(South", "Bridge)">>))
        \o [i \in 1..3 |-> pcie(i - 1)]
        \o Entry(<<"vrm">>,
                 Sim(Clamp(35000, 95000,
                           SimPackageTemp(h, o, j) + Rnd(j, <<"vrm">>, 5000, 15000)),
                     <<"(CPU-based)">>))

\* lines 896-1000
SimStorage(h, o, j) ==
    LET part_ssd(i) == HasPart(h.partitions[i], "ssd")
        part_hdd(i) == ~part_ssd(i) /\ (HasPart(h.partitions[i], "hdd")
                                        \/ HasPart(h.partitions[i], "disk"))
        found_ssd == \E i \in 1..Len(h.partitions) : part_ssd(i)
        found_hdd == \E i \in 1..Len(h.partitions) : part_hdd(i)
        has_ssd == found_ssd \/ ~found_hdd
        has_hdd == found_hdd \/ (~found_ssd /\ h.ram_total_gb < 16)
        activity_factor == IF o.disk_io < 0 THEN 0 ELSE Min2(o.disk_io * 10, 15000)
        ssd_temp == Clamp(20000, 45000,
                          28000 + activity_factor
                          + Rnd(j, <<"storage", "ssd">>, -1000, 2000))
        hdd_temp == Clamp(30000, 55000,
                          35000 + activity_factor
                          + Rnd(j, <<"storage", "hdd">>, -2000, 4000))
        ssd == Entry(<<"storage", "ssd">>, Sim(ssd_temp, <<"(SSD", "IO-based)">>))
               \o Entry(<<"storage", "ssd", "controller">>,
                        Sim(Clamp(25000, 50000,
                                  ssd_temp + Rnd(j, <<"storage", "ssd", "controller">>,
                                                 2000, 6000)),
                            <<"(SSD", "Controller)">>))
        hdd == Entry(<<"storage", "hdd">>, Sim(hdd_temp, <<"(HDD", "IO-based)">>))
               \o Entry(<<"storage", "hdd", "motor">>,
                        Sim(Clamp(35000, 60000,
                                  hdd_temp + Rnd(j, <<"storage", "hdd", "motor">>,
                                                 3000, 8000)),
                            <<"(HDD", "Motor)">>))
        nvme == Entry(<<"storage", "nvme">>,
                      Sim(Clamp(25000, 50000,
                                32000 + activity_factor
                                + Rnd(j, <<"storage", "nvme">>, -1000, 3000)),
                          <<"(NVMe", "IO-based)">>))
    IN  IF o.disk_io = -2
        THEN Entry(<<"storage", "primary">>,
                   Sim(32000 + Rnd(j, <<"storage", "primary">>, 0, 5000), <<"(Default)">>))
        ELSE (IF has_ssd THEN ssd ELSE <<>>)
             \o (IF has_hdd THEN hdd ELSE <<>>)
             \o (IF h.ram_total_gb >= 32 THEN nvme ELSE <<>>)

\* lines 1002-1013
SimPsu(o, j) ==
    Entry(<<"psu">>,
          Sim(Clamp(30000, 65000,
                    35000 + (o.cpu_percent + o.mem_percent) * 75
                    + Rnd(j, <<"psu">>, -2000, 3000)),
              <<"(System", "Load)">>))

\* _create_simulated_sensors: the whole body sits in one try, so what was
\* built before an exception is what the caller gets
create_simulated_sensors(h, o, j) ==
    LET package == Entry(<<"cpu", "package">>,
                         Sim(SimPackageTemp(h, o, j), <<"(Load+Freq-based)">>))
    IN  IF ~h.psutil THEN <<>>
        ELSE IF h.cpu_count = 0 THEN package
        ELSE package \o SimCpu(h, o, j) \o SimRam(h, o, j) \o SimGpu(o, j)
             \o SimSystem(h, o, j) \o SimStorage(h, o, j) \o SimPsu(o, j)

----------------------------------------------------------------------------
(* Detection entry point: lines 59-94 *)

\* self.detection_methods, in the order of the list
detection_methods(h, o, j) ==
    << detect_psutil_sensors(h, o, j),
       detect_windows_hardware_info(h, o, j),
       detect_thermal_sensors(h),
       detect_gpu_info(h, o, j),
       detect_cpu_specific(h, o) >>

\* a mutant of the loop: the first method that raises ends the chain
merge_detected_AbortOnRaise(results, raises) ==
    DictOf(Flatten([i \in 1..Len(results) |->
                       IF \E n \in raises : n <= i THEN <<>> ELSE results[i]]))

\* a mutant of the loop: a key that is already in the map keeps its record
merge_detected_FirstWins(results, raises) ==
    LET e == Flatten([i \in 1..Len(results) |->
                         IF i \in raises THEN <<>> ELSE results[i]])
        idx == [i \in 1..Len(e) |-> i]
        firsts == SelectSeq(idx, LAMBDA i : \A n \in 1..(i - 1) : e[n].key # e[i].key)
    IN  [n \in 1..Len(firsts) |-> e[firsts[n]]]

\* lines 69-79: the loop over self.detection_methods; results[i] is what the
\* i-th method returns when it returns, raises the places of the methods
\* that raise
merge_detected(results, raises) ==
    DictOf(Flatten([i \in 1..Len(results) |->
                       IF i \in raises THEN <<>> ELSE results[i]]))

\* a mutant of the fallback: the generator runs only when nothing was found
detect_all_sensors_OnlyWhenEmpty(h, o, j) ==
    LET all_sensors == merge_detected(detection_methods(h, o, j), o.raises)
    IN  IF Len(all_sensors) = 0
        THEN DictUpdate(all_sensors, create_simulated_sensors(h, o, j))
        ELSE all_sensors

\* detect_all_sensors
\* a mutant of detect_all_sensors: a low draw loses the last sensor
detect_all_sensors_DrawnKeys(h, o, j) ==
    LET all_sensors == merge_detected(detection_methods(h, o, j), o.raises)
    IN  IF j.base = 0 /\ Len(all_sensors) > 0
        THEN SubSeq(all_sensors, 1, Len(all_sensors) - 1)
        ELSE all_sensors

detect_all_sensors(h, o, j) ==
    LET all_sensors == merge_detected(detection_methods(h, o, j), o.raises)
    IN  IF Len(all_sensors) < 5
        THEN DictUpdate(all_sensors, create_simulated_sensors(h, o, j))
        ELSE all_sensors

----------------------------------------------------------------------------
(* Telemetry refresh: lines 1039-1294.  One call of _update_simulated_sensor *)
(* for the sensor k with the record info: cpu and mem are the values the     *)
(* two cache functions returned to it, t is its time.time(), o is what the   *)
(* direct psutil calls do while it runs and j the random.uniform draw.       *)

\* (memory_percent * 0.3 + cpu_percent * 0.4) / 100.0 times `gain` degrees
GpuActivity(cpu, mem, gain) == (3 * mem + 4 * cpu) * gain

\* lines 1230-1271: the sensors whose key contains 'storage_'
UpdateStorage(k, info, o, j) ==
    LET activity_temp == IF o.disk_io < 0 THEN 0 ELSE Min2(o.disk_io * 10, 15000)
    IN  IF o.disk_io = -2
        THEN Clamp(25000, 55000, info.current + Rnd(j, k, -500, 1000))
        ELSE IF HasPart(k, "ssd")
        THEN Clamp(20000, 45000, 28000 + activity_temp + Rnd(j, k, -800, 1200))
        ELSE IF HasPart(k, "hdd")
        THEN Clamp(30000, 55000, 35000 + activity_temp + Rnd(j, k, -1000, 2000))
        ELSE IF HasPart(k, "nvme")
        THEN Clamp(25000, 50000, 32000 + activity_temp + Rnd(j, k, -500, 1500))
        ELSE Clamp(25000, 55000, info.current + Rnd(j, k, -500, 1000))

\* _update_simulated_sensor
update_simulated_sensor(h, k, info, cpu, mem, t, o, j) ==
    LET n == ParseInt(k[Len(k)])
        \* used / total of psutil.virtual_memory(), read as the utilisation
        ram_usage   == IF o.mem.ok THEN o.mem.v ELSE 0
    IN  IF ~h.psutil THEN info.current
        ELSE IF ~IsSimulated(info.method)
        THEN Clamp(20000, 100000, info.current + Rnd(j, k, -500, 500))
        ELSE IF k = <<"cpu", "package">>
        THEN (IF o.freq_raises THEN info.current
              ELSE Clamp(30000, 85000,
                         35000 + (h.cpu_freq * 10) \div 3 + cpu * 200
                         + Rnd(j, k, -800, 1200) + (t % 10) * 50))
        ELSE IF HasPrefixParts(k, <<"cpu", "core">>)
        THEN (IF n < 0 \/ o.freq_raises THEN info.current
              ELSE Clamp(28000, 90000,
                         35000 + (h.cpu_freq * 8) \div 3 + cpu * 180
                         + Rnd(j, k, -2000, 4000) + n * 500))
        ELSE IF HasPrefixParts(k, <<"cpu", "thread">>)
        THEN (IF n < 0 THEN info.current
              ELSE Clamp(27000, 88000,
                         35000 + cpu * 160 + Rnd(j, k, -1000, 3000) + n * 300))
        ELSE IF HasPrefixParts(k, <<"ram", "module">>)
        THEN (IF n < 0 \/ ~o.mem.ok THEN info.current
              ELSE Clamp(20000, 60000,
                         25000 + ram_usage * 150 + Rnd(j, k, -1500, 2500) + n * 800))
        ELSE IF k = <<"ram", "controller">>
        THEN (IF ~o.mem.ok THEN info.current
              ELSE Clamp(25000, 55000,
                         30000 + ram_usage * 100 + Rnd(j, k, -1000, 2000)))
        ELSE IF HasPrefixParts(k, <<"ram", "dimm">>)
        THEN (IF n < 0 THEN info.current
              ELSE Clamp(22000, 50000, 28000 + Rnd(j, k, -1000, 3000) + n * 500))
        ELSE IF k = <<"gpu", "core">>
        THEN Clamp(25000, 80000,
                   30000 + GpuActivity(cpu, mem, 25) + Rnd(j, k, -800, 1500))
        ELSE IF k = <<"gpu", "memory">>
        THEN Clamp(22000, 75000,
                   28000 + GpuActivity(cpu, mem, 20) + Rnd(j, k, -1200, 2000))
        ELSE IF k = <<"gpu", "vrm">>
        THEN Clamp(25000, 80000,
                   32000 + GpuActivity(cpu, mem, 25) + Rnd(j, k, -1000, 2500))
        ELSE IF k = <<"gpu", "hotspot">>
        THEN Clamp(30000, 85000,
                   35000 + GpuActivity(cpu, mem, 30) + Rnd(j, k, -800, 3000))
        ELSE IF k = <<"gpu", "fan">>
        THEN Clamp(20000, 60000,
                   25000 + GpuActivity(cpu, mem, 10) + Rnd(j, k, -1500, 2000))
        ELSE IF k = <<"motherboard">>
        THEN Clamp(25000, 40000, info.current + Rnd(j, k, -300, 800))
        ELSE IF k = <<"chipset">>
        THEN Clamp(30000, 45000, info.current + Rnd(j, k, -500, 1000))
        ELSE IF k = <<"southbridge">>
        THEN Clamp(28000, 42000, info.current + Rnd(j, k, -400, 800))
        ELSE IF HasPrefixParts(k, <<"pcie", "slot">>)
        THEN (IF n < 0 THEN info.current
              ELSE Clamp(25000, 40000, 30000 + Rnd(j, k, -500, 1500) + n * 300))
        ELSE IF k = <<"vrm">>
        THEN (IF o.freq_raises THEN info.current
              ELSE Clamp(35000, 95000,
                         40000 + h.cpu_freq * 4 + cpu * 150 + Rnd(j, k, -1000, 2000)))
        ELSE IF HasPrefixParts(k, <<"storage">>)
        THEN UpdateStorage(k, info, o, j)
        ELSE IF k = <<"psu">>
        THEN Clamp(30000, 65000,
                   35000 + (cpu + mem) * 75 + Rnd(j, k, -800, 1200))
        ELSE Clamp(20000, 80000, info.current + Rnd(j, k, -500, 1000))

\* whether the body of _update_simulated_sensor raises for the sensor k and
\* the outer except of line 1292 returns the stored value: `import psutil`
\* fails, psutil.cpu_freq() or psutil.virtual_memory() raises where the
\* branch calls it, or int() refuses the last part of the key
update_raises(h, k, info, o) ==
    LET n == ParseInt(k[Len(k)])
    IN  IF ~h.psutil THEN TRUE
        ELSE IF ~IsSimulated(info.method) THEN FALSE
        ELSE IF k = <<"cpu", "package">> THEN o.freq_raises
        ELSE IF HasPrefixParts(k, <<"cpu", "core">>) THEN n < 0 \/ o.freq_raises
        ELSE IF HasPrefixParts(k, <<"cpu", "thread">>) THEN n < 0
        ELSE IF HasPrefixParts(k, <<"ram", "module">>) THEN n < 0 \/ ~o.mem.ok
        ELSE IF k = <<"ram", "controller">> THEN ~o.mem.ok
        ELSE IF HasPrefixParts(k, <<"ram", "dimm">>) THEN n < 0
        ELSE IF k \in {<<"gpu", "core">>, <<"gpu", "memory">>, <<"gpu", "vrm">>,
                       <<"gpu", "hotspot">>, <<"gpu", "fan">>,
                       <<"motherboard">>, <<"chipset">>, <<"southbridge">>}
        THEN FALSE
        ELSE IF HasPrefixParts(k, <<"pcie", "slot">>) THEN n < 0
        ELSE IF k = <<"vrm">> THEN o.freq_raises
        ELSE FALSE

\* whether psutil.disk_io_counters() raises in the storage branch, where the
\* inner except of lines 1272-1275 returns the stored value with a jitter
storage_raises(h, k, info, o) ==
    /\ h.psutil
    /\ IsSimulated(info.method)
    /\ ~update_raises(h, k, info, o)
    /\ k # <<"vrm">>
    /\ ~HasPrefixParts(k, <<"pcie", "slot">>)
    /\ HasPrefixParts(k, <<"storage">>)
    /\ o.disk_io = -2

\* the branch of the if/elif chain of lines 1095-1290 that a simulated
\* sensor with the key k takes, named by the sensor kind its test and its
\* comment stand for; the last storage branch is the one for the storage
\* sensors that are neither SSD, HDD nor NVMe
update_branch(k) ==
    IF k = <<"cpu", "package">> THEN "cpu_package"
    ELSE IF HasPrefixParts(k, <<"cpu", "core">>) THEN "cpu_core"
    ELSE IF HasPrefixParts(k, <<"cpu", "thread">>) THEN "cpu_thread"
    ELSE IF HasPrefixParts(k, <<"ram", "module">>) THEN "ram_module"
    ELSE IF k = <<"ram", "controller">> THEN "ram_controller"
    ELSE IF HasPrefixParts(k, <<"ram", "dimm">>) THEN "ram_dimm"
    ELSE IF k = <<"gpu", "core">> THEN "gpu_core"
    ELSE IF k = <<"gpu", "memory">> THEN "gpu_memory"
    ELSE IF k = <<"gpu", "vrm">> THEN "gpu_vrm"
    ELSE IF k = <<"gpu", "hotspot">> THEN "gpu_hotspot"
    ELSE IF k = <<"gpu", "fan">> THEN "gpu_fan"
    ELSE IF k = <<"motherboard">> THEN "motherboard"
    ELSE IF k = <<"chipset">> THEN "chipset"
    ELSE IF k = <<"southbridge">> THEN "southbridge"
    ELSE IF HasPrefixParts(k, <<"pcie", "slot">>) THEN "pcie_slot"
    ELSE IF k = <<"vrm">> THEN "vrm"
    ELSE IF HasPrefixParts(k, <<"storage">>)
    THEN (IF HasPart(k, "ssd") THEN "storage_ssd"
          ELSE IF HasPart(k, "hdd") THEN "storage_hdd"
          ELSE IF HasPart(k, "nvme") THEN "storage_nvme"
          ELSE "storage_primary")
    ELSE IF k = <<"psu">> THEN "psu"
    ELSE "other"

\* the max(lo, min(hi, ...)) with which each branch of lines 1095-1290
\* returns, as <<lo, hi>>
update_clamp(branch) ==
    CASE branch = "cpu_package"     -> <<30000, 85000>>
      [] branch = "cpu_core"        -> <<28000, 90000>>
      [] branch = "cpu_thread"      -> <<27000, 88000>>
      [] branch = "ram_module"      -> <<20000, 60000>>
      [] branch = "ram_controller"  -> <<25000, 55000>>
      [] branch = "ram_dimm"        -> <<22000, 50000>>
      [] branch = "gpu_core"        -> <<25000, 80000>>
      [] branch = "gpu_memory"      -> <<22000, 75000>>
      [] branch = "gpu_vrm"         -> <<25000, 80000>>
      [] branch = "gpu_hotspot"     -> <<30000, 85000>>
      [] branch = "gpu_fan"         -> <<20000, 60000>>
      [] branch = "motherboard"     -> <<25000, 40000>>
      [] branch = "chipset"         -> <<30000, 45000>>
      [] branch = "southbridge"     -> <<28000, 42000>>
      [] branch = "pcie_slot"       -> <<25000, 40000>>
      [] branch = "vrm"             -> <<35000, 95000>>
      [] branch = "storage_ssd"     -> <<20000, 45000>>
      [] branch = "storage_hdd"     -> <<30000, 55000>>
      [] branch = "storage_nvme"    -> <<25000, 50000>>
      [] branch = "storage_primary" -> <<25000, 55000>>
      [] branch = "psu"             -> <<30000, 65000>>
      [] OTHER                      -> <<20000, 80000>>

\* the sensor kind as which _create_simulated_sensors writes the key k
\* (lines 673-1013): the key without the number of the core, thread,
\* module, slot
generated_kind(k) ==
    IF Len(k) = 3 /\ ParseInt(k[3]) >= 0 THEN k[1] \o "_" \o k[2]
    ELSE IF Len(k) = 3 THEN k[1] \o "_" \o k[2] \o "_" \o k[3]
    ELSE IF Len(k) = 2 THEN k[1] \o "_" \o k[2]
    ELSE k[1]

\* the max(lo, min(hi, ...)) that _create_simulated_sensors applies to the
\* sensors of a kind, as <<lo, hi>>; <<>> for the kinds it does not clamp
generated_clamp(kind) ==
    CASE kind = "cpu_package"            -> <<30000, 85000>>
      [] kind = "cpu_core"               -> <<28000, 90000>>
      [] kind = "cpu_thread"             -> <<27000, 88000>>
      [] kind = "ram_module"             -> <<20000, 60000>>
      [] kind = "ram_controller"         -> <<25000, 55000>>
      [] kind = "ram_dimm"               -> <<22000, 50000>>
      [] kind = "gpu_core"               -> <<25000, 80000>>
      [] kind = "gpu_memory"             -> <<22000, 75000>>
      [] kind = "gpu_vrm"                -> <<25000, 80000>>
      [] kind = "gpu_hotspot"            -> <<30000, 85000>>
      [] kind = "gpu_fan"                -> <<20000, 60000>>
      [] kind = "vrm"                    -> <<35000, 95000>>
      [] kind = "storage_ssd"            -> <<20000, 45000>>
      [] kind = "storage_ssd_controller" -> <<25000, 50000>>
      [] kind = "storage_hdd"            -> <<30000, 55000>>
      [] kind = "storage_hdd_motor"      -> <<35000, 60000>>
      [] kind = "storage_nvme"           -> <<25000, 50000>>
      [] kind = "psu"                    -> <<30000, 65000>>
      [] OTHER                           -> <<>>

\* the branches that return the stored value plus a draw: the interval of
\* the draw as <<a, b>>; <<>> for the branches that compute the value anew.
\* "real" is the branch of lines 1089-1092
update_jitter(branch) ==
    CASE branch = "real"            -> <<-500, 500>>
      [] branch = "motherboard"     -> <<-300, 800>>
      [] branch = "chipset"         -> <<-500, 1000>>
      [] branch = "southbridge"     -> <<-400, 800>>
      [] branch = "storage_primary" -> <<-500, 1000>>
      [] branch = "other"           -> <<-500, 1000>>
      [] OTHER                      -> <<>>

\* the branch of _update_simulated_sensor for the sensor k with the record
\* info, and its clamp
branch_of(k, info) ==
    IF ~IsSimulated(info.method) THEN "real" ELSE update_branch(k)

clamp_of(branch) ==
    IF branch = "real" THEN <<20000, 100000>> ELSE update_clamp(branch)

----------------------------------------------------------------------------
(* get_updated_sensors: lines 1039-1072.  The clock may advance by one      *)
(* second while the loop runs: the first `split` sensors are refreshed at   *)
(* time t under the observation o1, the others at t + 1 under o2.           *)

\* the two cache functions as the sensors of one stretch of the loop see
\* them: after the first call the same instant and the same query outcome
\* change nothing more
CachesAt(c, t, o) ==
    LET cpu == get_cached_cpu_percent(c.cached_cpu_percent, c.last_cpu_check, t, o.cpu)
        mem == get_cached_memory_percent(c.cached_memory_percent,
                                         c.last_memory_check, t, o.mem)
    IN  [cached_cpu_percent |-> cpu.cached, last_cpu_check |-> cpu.last,
         cached_memory_percent |-> mem.cached, last_memory_check |-> mem.last]

\* the caches in the course of one get_updated_sensors loop over S: first,
\* while the sensors up to split are refreshed; rest, from then on, and
\* what the engine is left with
refreshed_caches(h, S, c, t, split, o1, o2) ==
    LET first == IF h.psutil /\ Len(S) > 0 THEN CachesAt(c, t, o1) ELSE c
    IN  [first |-> first,
         rest  |-> IF h.psutil /\ split < Len(S)
                   THEN CachesAt(first, t + 1, o2)
                   ELSE first]

\* a mutant of the loop: a sensor whose refresh fell back to the stored
\* value is left out of the result
get_updated_sensors_SkipUnchanged(h, S, c, t, split, o1, o2, j) ==
    LET first == IF h.psutil /\ Len(S) > 0 THEN CachesAt(c, t, o1) ELSE c
        rest  == IF h.psutil /\ split < Len(S) THEN CachesAt(first, t + 1, o2) ELSE first
        updated(i) ==
            IF i <= split
            THEN update_simulated_sensor(h, S[i].key, S[i].info,
                                         first.cached_cpu_percent,
                                         first.cached_memory_percent, t, o1, j)
            ELSE update_simulated_sensor(h, S[i].key, S[i].info,
                                         rest.cached_cpu_percent,
                                         rest.cached_memory_percent, t + 1, o2, j)
        all == [i \in 1..Len(S) |->
                   [key |-> S[i].key, info |-> [S[i].info EXCEPT !.current = updated(i)]]]
    IN  [sensors |-> SelectSeq(all, LAMBDA e : e.info.current # Get(S, e.key).current),
         caches  |-> rest,
         stored  |-> S]

\* a mutant of the loop: the refreshed record is written into self.sensors
\* as well
get_updated_sensors_WriteBack(h, S, c, t, split, o1, o2, j) ==
    LET w == refreshed_caches(h, S, c, t, split, o1, o2)
        updated(i) ==
            IF i <= split
            THEN update_simulated_sensor(h, S[i].key, S[i].info,
                                         w.first.cached_cpu_percent,
                                         w.first.cached_memory_percent, t, o1, j)
            ELSE update_simulated_sensor(h, S[i].key, S[i].info,
                                         w.rest.cached_cpu_percent,
                                         w.rest.cached_memory_percent, t + 1, o2, j)
        all == [i \in 1..Len(S) |->
                   [key |-> S[i].key, info |-> [S[i].info EXCEPT !.current = updated(i)]]]
    IN  [sensors |-> all, caches |-> w.rest, stored |-> all]

\* get_updated_sensors on the map S with the cache fields c.  The branches
\* for a None result and for an exception of _update_simulated_sensor are
\* never taken: that function catches Exception and returns a number.
\* sensors is the dict returned, built from copies of the records (lines
\* 1050-1052); stored is self.sensors after the call, which the loop only
\* reads
get_updated_sensors(h, S, c, t, split, o1, o2, j) ==
    LET w     == refreshed_caches(h, S, c, t, split, o1, o2)
        first == w.first
        rest  == w.rest
        updated(i) ==
            IF i <= split
            THEN update_simulated_sensor(h, S[i].key, S[i].info,
                                         first.cached_cpu_percent,
                                         first.cached_memory_percent, t, o1, j)
            ELSE update_simulated_sensor(h, S[i].key, S[i].info,
                                         rest.cached_cpu_percent,
                                         rest.cached_memory_percent, t + 1, o2, j)
    IN  [sensors |-> [i \in 1..Len(S) |->
                         [key |-> S[i].key,
                          info |-> [S[i].info EXCEPT !.current = updated(i)]]],
         caches  |-> rest,
         stored  |-> S]

\* the psutil.cpu_percent and psutil.virtual_memory calls that the two cache
\* functions issue (lines 104, 119) while n sensors are refreshed at the
\* time t under the observation o, the cache fields being c at first: every
\* _update_simulated_sensor call reaches both functions (lines 1080-1081),
\* and from the second call on they find the fields the first one left
stretch_queries(n, c, t, o) ==
    LET c1 == CachesAt(c, t, o)
        cpu(x) == IF get_cached_cpu_percent(x.cached_cpu_percent, x.last_cpu_check,
                                            t, o.cpu).queried THEN 1 ELSE 0
        mem(x) == IF get_cached_memory_percent(x.cached_memory_percent,
                                               x.last_memory_check,
                                               t, o.mem).queried THEN 1 ELSE 0
    IN  IF n = 0 THEN [cpu |-> 0, mem |-> 0]
        ELSE [cpu |-> cpu(c) + (n - 1) * cpu(c1),
              mem |-> mem(c) + (n - 1) * mem(c1)]

\* the OS queries of one get_updated_sensors loop over S: cpu and mem, those
\* of the cache functions; direct, the psutil.virtual_memory calls that the
\* ram_module and ram_controller branches make themselves (lines 1126, 1135)
count_queries(h, S, c, t, split, o1, o2) ==
    IF ~h.psutil THEN [cpu |-> 0, mem |-> 0, direct |-> 0]
    ELSE LET n1 == Min2(split, Len(S))
             w  == refreshed_caches(h, S, c, t, split, o1, o2)
             a  == stretch_queries(n1, c, t, o1)
             b  == stretch_queries(Len(S) - n1, w.first, t + 1, o2)
             asks(i) ==
                 /\ IsSimulated(S[i].info.method)
                 /\ \/ update_branch(S[i].key) = "ram_controller"
                    \/ /\ update_branch(S[i].key) = "ram_module"
                       /\ ParseInt(S[i].key[Len(S[i].key)]) >= 0
         IN  [cpu    |-> a.cpu + b.cpu,
              mem    |-> a.mem + b.mem,
              direct |-> Cardinality({i \in 1..Len(S) : asks(i)})]

----------------------------------------------------------------------------
(* The machines the program is run on *)

\* a machine with no Python package installed and nothing to report
NoMachine ==
    [psutil |-> FALSE, wmi |-> FALSE, windows |-> FALSE, cpuinfo |-> FALSE,
     brand |-> <<>>, cpu_count |-> 0, cpu_count_logical |-> 0, cpu_freq |-> 0,
     ram_total_gb |-> 0, temps |-> <<>>, board |-> FALSE, ide |-> FALSE,
     system |-> FALSE, disks |-> <<>>, gpus |-> <<>>, partitions |-> <<>>,
     thermal |-> << <<>>, <<>>, <<>> >>]

\* one line `name : value` of a PowerShell output
ThermalLine(name, v) ==
    [colon |-> TRUE, name |-> name, value |-> <<[num |-> TRUE, v |-> v]>>]

\* Linux with psutil and py-cpuinfo: two coretemp readings, the first 0.2
\* degrees under its `high`
LinuxBox ==
    [NoMachine EXCEPT
        !.psutil = TRUE, !.cpuinfo = TRUE, !.brand = <<"AMD", "Ryzen", "5">>,
        !.cpu_count = 2, !.cpu_count_logical = 4, !.cpu_freq = 3000,
        !.ram_total_gb = 16,
        !.temps = <<[name |-> "coretemp", current |-> 79800, high |-> 80000],
                    [name |-> "coretemp", current |-> 45000, high |-> 0]>>,
        !.partitions = << <<"/dev/sda1">> >>]

\* Linux with psutil: one coretemp reading of 96 degrees that reports no
\* `high`
HotBox ==
    [NoMachine EXCEPT
        !.psutil = TRUE, !.cpu_count = 1, !.cpu_count_logical = 1,
        !.cpu_freq = 3000, !.ram_total_gb = 8,
        !.temps = <<[name |-> "coretemp", current |-> 96000, high |-> 0]>>,
        !.partitions = << <<"/dev/sda1">> >>]

\* Linux with psutil: the ACPI zone, in a cold room, reads 16.8 degrees
ColdBox ==
    [NoMachine EXCEPT
        !.psutil = TRUE, !.cpu_count = 1, !.cpu_count_logical = 1,
        !.cpu_freq = 3000, !.ram_total_gb = 8,
        !.temps = <<[name |-> "acpitz", current |-> 16800, high |-> 0]>>,
        !.partitions = << <<"/dev/sda1">> >>]

\* Windows with psutil only; the thermal zone reports 500 K, which is refused
WindowsBox ==
    [NoMachine EXCEPT
        !.psutil = TRUE, !.windows = TRUE,
        !.cpu_count = 1, !.cpu_count_logical = 2, !.cpu_freq = 2400,
        !.ram_total_gb = 8,
        !.partitions = << <<"C:\\">> >>,
        !.thermal = << <<>>, <<>>,
                       <<ThermalLine(<<"CurrentTemperature">>, 5000000)>> >>]

\* Windows with psutil, WMI and py-cpuinfo
WmiBox ==
    [NoMachine EXCEPT
        !.psutil = TRUE, !.wmi = TRUE, !.windows = TRUE, !.cpuinfo = TRUE,
        !.brand = <<"Intel(R)", "Core", "i7">>,
        !.cpu_count = 4, !.cpu_count_logical = 8, !.cpu_freq = 3600,
        !.ram_total_gb = 32,
        !.board = TRUE, !.ide = TRUE, !.system = TRUE,
        !.disks = << <<"samsung", "ssd", "970">>, <<"wdc", "wd10ezex">> >>,
        !.gpus = <<[name |-> <<"nvidia", "geforce", "rtx">>, ram_gb |-> 8]>>,
        !.partitions = << <<"C:\\">>, <<"D:\\">> >>,
        !.thermal = << <<ThermalLine(<<"CPU", "Thermal", "Zone">>, 3032000),
                         [colon |-> FALSE, name |-> <<>>, value |-> <<>>]>>,
                       <<>>,
                       <<ThermalLine(<<"CurrentTemperature">>, 310000)>> >>]

\* psutil is installed but cannot tell the core count or the frequency
NoCountBox ==
    [NoMachine EXCEPT !.psutil = TRUE, !.ram_total_gb = 8]

\* Windows without any Python package; two thermal zones answer
ThermalOnlyBox ==
    [NoMachine EXCEPT
        !.windows = TRUE,
        !.thermal = << <<>>, <<>>,
                       <<ThermalLine(<<"CurrentTemperature">>, 3032000),
                         ThermalLine(<<"CriticalTripPoint">>, 120000)>> >>]

\* Windows with WMI but without psutil; WMI names an IDE controller
ChipsetOnlyBox ==
    [NoMachine EXCEPT !.wmi = TRUE, !.windows = TRUE, !.ide = TRUE]

\* as WmiBox, but the first disk drive has the caption "Real", so that the
\* WMI detector builds the key disk_real that the psutil detector also uses
ClashBox ==
    [WmiBox EXCEPT !.disks = << <<"real">>, <<"samsung", "ssd", "970">> >>]

Machines ==
    {NoMachine, LinuxBox, WindowsBox, WmiBox, NoCountBox, ThermalOnlyBox,
     ChipsetOnlyBox, ClashBox, HotBox}

\* what happens during one detect_all_sensors call: the utilisation and the
\* disk traffic in GB that psutil reports (-1: disk_io_counters() is None,
\* -2: it raises), and the places in self.detection_methods of the methods
\* that raise instead of returning
Observations ==
    {[cpu_percent |-> c, disk_io |-> d, mem_percent |-> m, raises |-> {}] :
        c \in PercentSamples, m \in PercentSamples, d \in {-2, -1, 0, 2000}}

\* detect_all_sensors calls during which some of the five methods raise
FaultObservations ==
    {[cpu_percent |-> 100, disk_io |-> d, mem_percent |-> 0, raises |-> F] :
        d \in {-1, 2000}, F \in (SUBSET (1..5)) \ {{}}}

\* what psutil does during one stretch of a get_updated_sensors loop
TickObservations ==
    {[cpu |-> [ok |-> TRUE, v |-> 0], disk_io |-> -1,
      freq_raises |-> FALSE, mem |-> [ok |-> TRUE, v |-> 0]],
     [cpu |-> [ok |-> TRUE, v |-> 100], disk_io |-> 2000,
      freq_raises |-> FALSE, mem |-> [ok |-> TRUE, v |-> 100]],
     [cpu |-> [ok |-> FALSE, v |-> 0], disk_io |-> -2,
      freq_raises |-> TRUE, mem |-> [ok |-> FALSE, v |-> 0]]}

\* the sensors whose random.uniform draw is varied against the others
FocusKeys ==
    {<<"gpu", "core">>, <<"gpu", "hotspot">>, <<"gpu", "fan">>}

\* every draw sits at the same inner position of its interval
MidDraw == [at |-> UniformSteps \div 2, base |-> UniformSteps \div 2, focus |-> <<>>]

\* the inputs of one get_updated_sensors call on n sensors
TickInputs(n) ==
    {[split |-> n, o1 |-> o, o2 |-> o, j |-> j] :
        o \in TickObservations, j \in Draws(FocusKeys)}
    \cup {[split |-> s, o1 |-> o1, o2 |-> o2, j |-> MidDraw] :
            s \in {x \in 1..(n - 1) : x % SplitStride = 0},
            o1 \in TickObservations, o2 \in TickObservations}

----------------------------------------------------------------------------
(* Construction and the specifications *)

\* the caller has not yet taken the result of the last sensor call
Pending == ret.op \in {"detect_all_sensors", "get_updated_sensors"}

\* a call of detect_all_sensors under an observation of O and a draw of J
DetectAllSensors(O, J) ==
    /\ ~Pending
    /\ \E o \in O, j \in J :
        /\ sensors' = detect_all_sensors(host, o, j)
        /\ ret' = [op |-> "detect_all_sensors", sensors |-> sensors',
                   o |-> o, found |-> detection_methods(host, o, j),
                   generated |-> create_simulated_sensors(host, o, j),
                   before_keys |-> Keys(sensors)]
    \* line 92 binds self.sensors to the new dict: a dict handed out by an
    \* earlier call is no longer the engine's and keeps its content
    /\ held' = IF held.ref = "self.sensors"
               THEN [ref |-> "detached", map |-> sensors]
               ELSE held
    /\ UNCHANGED <<host, app, fan_status, cacheVars, now>>

\* a call of get_updated_sensors
GetUpdatedSensors ==
    /\ ~Pending
    /\ \E i \in TickInputs(Len(sensors)) :
        LET r == get_updated_sensors(host, sensors,
                     [cached_cpu_percent |-> cached_cpu_percent,
                      last_cpu_check |-> last_cpu_check,
                      cached_memory_percent |-> cached_memory_percent,
                      last_memory_check |-> last_memory_check],
                     now, i.split, i.o1, i.o2, i.j)
        IN  /\ i.split < Len(sensors) => now < MaxTime
            /\ cached_cpu_percent' = r.caches.cached_cpu_percent
            /\ last_cpu_check' = r.caches.last_cpu_check
            /\ cached_memory_percent' = r.caches.cached_memory_percent
            /\ last_memory_check' = r.caches.last_memory_check
            /\ now' = IF i.split < Len(sensors) THEN now + 1 ELSE now
            /\ ret' = [op |-> "get_updated_sensors", sensors |-> r.sensors,
                       engine |-> sensors, split |-> i.split,
                       o1 |-> i.o1, o2 |-> i.o2, j |-> i.j, at |-> now,
                       caches |-> [cached_cpu_percent |-> cached_cpu_percent,
                                   last_cpu_check |-> last_cpu_check,
                                   cached_memory_percent |-> cached_memory_percent,
                                   last_memory_check |-> last_memory_check]]
            /\ sensors' = r.stored
    /\ UNCHANGED <<host, held, app, fan_status>>

\* the caller takes the result
Return ==
    /\ Pending
    /\ ret' = [op |-> "return"]
    /\ UNCHANGED <<host, held, app, sensors, fan_status, cacheVars, now>>

\* the application window before the hardware monitor view is first opened
\* (App.__init__, lines 1531-1539).  started is _hardware_updates_started,
\* FALSE as long as the attribute is not set: every read of it is guarded
\* by hasattr.  timers are the pending after() callbacks with the time left
\* in units of 100 ms; worker is the position of the thread that
\* start_thread_safe started; registered says that active_threads holds it;
\* has_event and stop_set are thread_stop_events['hardware'].
NoApp ==
    [current_frame |-> "home", hardware_monitor_created |-> FALSE,
     started |-> FALSE, monitor |-> FALSE, widgets |-> FALSE,
     timers |-> <<>>, worker |-> "idle", registered |-> FALSE,
     has_event |-> FALSE, stop_set |-> FALSE]

\* __init__ on a machine of H, its detect_all_sensors call under an
\* observation of O and a draw of J
InitOn(H, O, J) ==
    /\ host \in H
    /\ \E o \in O, j \in J : sensors = detect_all_sensors(host, o, j)
    /\ fan_status = initialize_fan_status
    /\ last_cpu_check = 0
    /\ last_memory_check = 0
    /\ cached_cpu_percent = 0
    /\ cached_memory_percent = 0
    /\ now = StartTime
    /\ ret = [op |-> "__init__"]
    /\ held = [ref |-> "none"]
    /\ app = NoApp

\* an idle observation: no load, no disk counters
QuietObservation ==
    [cpu_percent |-> 0, disk_io |-> -1, mem_percent |-> 0, raises |-> {}]

Init == InitOn({LinuxBox}, {QuietObservation}, {MidDraw})

NextCache == GetCachedCpuPercent \/ GetCachedMemoryPercent \/ Elapse

SpecCache == Init /\ [][NextCache]_vars

NextFans == GetFanStatus \/ SetFanSpeed \/ SetAllFansSpeed

SpecFans == Init /\ [][NextFans]_vars

\* the observations under which construction and repeated detections are
\* followed
RefreshObservations ==
    {QuietObservation,
     [cpu_percent |-> 100, disk_io |-> -2, mem_percent |-> 100, raises |-> {}]}

InitDetect == InitOn(Machines, RefreshObservations, {MidDraw})

\* the first detect_all_sensors call after construction is followed under
\* every observation and draw, the later ones under RefreshObservations and
\* under FaultObservations
NextDetect ==
    \/ (ret.op = "__init__" /\ DetectAllSensors(Observations, Draws(FocusKeys)))
    \/ DetectAllSensors(RefreshObservations, {MidDraw})
    \/ DetectAllSensors(FaultObservations, {MidDraw})
    \/ Return

SpecDetect == InitDetect /\ [][NextDetect]_vars

RefreshMachines == {LinuxBox, WindowsBox, ThermalOnlyBox}

InitRefresh == InitOn(RefreshMachines, RefreshObservations, {MidDraw})

NextRefresh ==
    \/ DetectAllSensors(RefreshObservations, {MidDraw})
    \/ GetUpdatedSensors
    \/ Return
    \/ Elapse

SpecRefresh == InitRefresh /\ [][NextRefresh]_vars

\* repeated detections on one machine, between calls that change the fans
RedetectMachines == {LinuxBox, WmiBox, NoCountBox, ChipsetOnlyBox}

InitRedetect == InitOn(RedetectMachines, {QuietObservation}, {MidDraw})

\* the outcomes of the detections: all queries answer, or the psutil
\* method raises, or every method raises
RedetectObservations ==
    RefreshObservations
    \cup {o \in FaultObservations :
             o.raises \in {{1}, 1..5} /\ o.disk_io = -1}

NextRedetect ==
    \/ DetectAllSensors(RedetectObservations, Draws({}))
    \/ Return
    \/ SetFanSpeedWith({"cpu_fan"}, {90})

SpecRedetect == InitRedetect /\ [][NextRedetect]_vars

\* What each call hands to its caller.  get_fan_status returns the attribute
\* self.fan_status itself (line 1339); detect_all_sensors returns the dict it
\* has just bound to self.sensors (lines 92-94); get_updated_sensors returns
\* a dict built in the call from copies of the records (lines 1048-1052).
Handle(r) ==
    CASE r.op = "get_fan_status"      -> [ref |-> "self.fan_status"]
      [] r.op = "detect_all_sensors"  -> [ref |-> "self.sensors"]
      [] r.op = "get_updated_sensors" -> [ref |-> "new", map |-> r.sensors]

\* the caller stores the result of the call that has just returned, as
\* the application does with self.detected_sensors (lines 2676, 3485, 8761)
CallerKeeps ==
    /\ ret.op \in {"get_fan_status", "detect_all_sensors", "get_updated_sensors"}
    /\ held' = Handle(ret)
    /\ UNCHANGED <<host, app, sensors, fan_status, cacheVars, now, ret>>

\* the content of the map the caller holds, as the caller reads it now
HeldMap ==
    CASE held.ref = "self.fan_status" -> fan_status
      [] held.ref = "self.sensors"    -> sensors
      [] OTHER                        -> held.map

AliasMachines == {NoCountBox, ThermalOnlyBox}

InitAlias == InitOn(AliasMachines, {QuietObservation}, {MidDraw})

NextAlias ==
    \/ GetFanStatus
    \/ SetFanSpeedWith({"cpu_fan"}, {90})
    \/ DetectAllSensors({QuietObservation}, {MidDraw})
    \/ GetUpdatedSensors
    \/ CallerKeeps
    \/ Return

SpecAlias == InitAlias /\ [][NextAlias]_vars

-----------------------------------------------------------------------------
(* The application's refresh scheduling: the hardware monitor tab, the       *)
(* Refresh button, the after() timers and the 'hardware' thread              *)

HW == "hardware_monitor"

\* delays of the after() calls, in units of 100 ms
AfterLoad == 1          \* self.after(100, self._load_hardware_monitor_background)
AfterRestart == 5       \* self.after(500, lambda: self.start_thread_safe(...))
AfterThread == 1        \* self.after(100, lambda: self._start_thread(...))
AfterTick == 20         \* self.after(2000, self._schedule_hardware_update)
AfterTickError == 50    \* self.after(5000, self._schedule_hardware_update)

\* the most after() callbacks the window holds before the user's next
\* press of Refresh
MaxTimers == 2

\* the outcomes of the display update inside a tick: TRUE, the labels were
\* updated; FALSE, the update raised.  The ticks checked are those whose
\* display update goes through
DisplayOutcomes == {TRUE}

\* the draws of the fan refresh inside a tick
GuiDraws == {<<0, 0>>, <<UniformSteps, UniformSteps>>}

Timer(cb, left) == [cb |-> cb, left |-> left]

After(a, left, cb) == [a EXCEPT !.timers = Append(@, Timer(cb, left))]

Cancelled(a, i) ==
    [a EXCEPT !.timers = [n \in 1..(Len(@) - 1) |-> IF n < i THEN @[n] ELSE @[n + 1]]]

Due(cb) == {i \in 1..Len(app.timers) : app.timers[i] = Timer(cb, 0)}

\* stop_thread('hardware'): the event is set; a live thread is joined for
\* at most half a second and dropped from active_threads, finished or not
stop_thread(a) ==
    LET a1 == IF a.has_event THEN [a EXCEPT !.stop_set = TRUE] ELSE a
    IN  IF a1.registered /\ a1.worker # "idle"
        THEN [a1 EXCEPT !.registered = FALSE]
        ELSE a1

\* stop_all_active_threads: only the names in active_threads
stop_all_active_threads(a) == IF a.registered THEN stop_thread(a) ELSE a

\* start_thread_safe('hardware', self.start_hardware_updates)
start_thread_safe(a) ==
    LET a1 == IF a.registered /\ a.worker # "idle" THEN stop_thread(a) ELSE a
    IN  After([a1 EXCEPT !.has_event = TRUE, !.stop_set = FALSE],
              AfterThread, "_start_thread")

\* select_frame_by_name(name)
select_frame_by_name(a, name) ==
    LET a1 == stop_all_active_threads(a)
        a2 == IF a1.started /\ a1.current_frame = HW
              THEN [a1 EXCEPT !.started = FALSE]
              ELSE a1
    IN  [a2 EXCEPT !.current_frame = name]

\* stop_hardware_updates
stop_hardware_updates(a) == [a EXCEPT !.started = FALSE]

\* _schedule_hardware_update; shown says whether the display update went
\* through or raised.  ran: the tick called get_updated_sensors; full: it
\* called get_fan_status as well
schedule_hardware_update(a, shown) ==
    IF ~a.started \/ a.current_frame # HW
    THEN [app |-> a, ran |-> FALSE, full |-> FALSE]
    ELSE [app |-> After(a, IF shown THEN AfterTick ELSE AfterTickError,
                        "_schedule_hardware_update"),
          ran |-> a.monitor, full |-> a.monitor /\ shown]

\* start_hardware_updates up to the flag: skipped when already started;
\* built: a monitor had to be constructed first
mark_started(a) ==
    IF a.started
    THEN [app |-> a, skipped |-> TRUE, built |-> FALSE]
    ELSE [app |-> [a EXCEPT !.started = TRUE, !.monitor = TRUE],
          skipped |-> FALSE, built |-> ~a.monitor]

\* start_hardware_updates as one call
start_hardware_updates(a, shown) ==
    LET m == mark_started(a)
        t == schedule_hardware_update(m.app, shown)
    IN  IF m.skipped
        THEN [app |-> a, ran |-> FALSE, full |-> FALSE, built |-> FALSE]
        ELSE [app |-> t.app, ran |-> t.ran, full |-> t.full, built |-> m.built]

\* the machine the application runs on
GuiMachine == ThermalOnlyBox

\* the sensors of a new UniversalHardwareMonitor on it, as the
\* detect_all_sensors call of the application returns them
GuiDetected == detect_all_sensors(GuiMachine, QuietObservation, MidDraw)

\* what a handler does to the engine: built, a new UniversalHardwareMonitor
\* and its detect_all_sensors; ran, a get_updated_sensors, which leaves the
\* sensors as they are and refreshes the caches; full, a get_fan_status
\* with the draws u
Engine(built, ran, full, u) ==
    LET S0 == IF built THEN GuiDetected ELSE sensors
        c0 == IF built
              THEN [cached_cpu_percent |-> 0, last_cpu_check |-> 0,
                    cached_memory_percent |-> 0, last_memory_check |-> 0]
              ELSE [cached_cpu_percent |-> cached_cpu_percent,
                    last_cpu_check |-> last_cpu_check,
                    cached_memory_percent |-> cached_memory_percent,
                    last_memory_check |-> last_memory_check]
        f0 == IF built THEN initialize_fan_status ELSE fan_status
        r  == refreshed_caches(host, S0, c0, now, Len(S0),
                               QuietObservation, QuietObservation)
        c1 == IF ran THEN r.rest ELSE c0
        f1 == IF full
              THEN update_fan_status_real_time(
                       IF DOMAIN f0 = {} THEN initialize_fan_status ELSE f0,
                       u[1], u[2])
              ELSE f0
    IN  /\ sensors' = S0
        /\ fan_status' = f1
        /\ cached_cpu_percent' = c1.cached_cpu_percent
        /\ last_cpu_check' = c1.last_cpu_check
        /\ cached_memory_percent' = c1.cached_memory_percent
        /\ last_memory_check' = c1.last_memory_check

NoEngine == UNCHANGED <<sensors, fan_status, cacheVars>>

\* the user presses the hardware monitor button of the side bar
HardwareMonitorButtonEvent ==
    LET a1 == IF app.hardware_monitor_created
              THEN app
              ELSE [After(app, AfterLoad, "_load_hardware_monitor_background")
                       EXCEPT !.hardware_monitor_created = TRUE]
    IN  /\ app' = select_frame_by_name(a1, HW)
        /\ ret' = [op |-> "hardware_monitor_button_event"]
        /\ NoEngine
        /\ UNCHANGED <<host, held, now>>

\* the user presses the button of another tab
HomeButtonEvent ==
    /\ app.current_frame # "home"
    /\ app' = select_frame_by_name(app, "home")
    /\ ret' = [op |-> "home_button_event"]
    /\ NoEngine
    /\ UNCHANGED <<host, held, now>>

\* the user presses Refresh, a button of the hardware monitor view
RefreshHardwareMonitor ==
    /\ app.widgets
    /\ app.current_frame = HW
    /\ Len(app.timers) < MaxTimers
    /\ app' = After(stop_hardware_updates(app), AfterRestart, "start_thread_safe")
    /\ Engine(app.monitor, FALSE, FALSE, <<0, 0>>)
    /\ ret' = [op |-> "refresh_hardware_monitor"]
    /\ UNCHANGED <<host, held, now>>

\* the timer of _load_hardware_monitor_background fires: the widgets and the
\* monitor are created, start_hardware_updates is called (line 3131) and
\* the restart through start_thread_safe is scheduled (line 2548)
LoadHardwareMonitorBackground ==
    \E i \in Due("_load_hardware_monitor_background"), shown \in DisplayOutcomes, u \in GuiDraws :
        LET a1 == [Cancelled(app, i) EXCEPT !.monitor = TRUE, !.widgets = TRUE]
            r  == start_hardware_updates(a1, shown)
        IN  /\ app' = After(r.app, AfterRestart, "start_thread_safe")
            /\ Engine(TRUE, r.ran, r.full, u)
            /\ ret' = [op |-> "_load_hardware_monitor_background",
                       ran |-> r.ran, full |-> r.full]
            /\ UNCHANGED <<host, held, now>>

\* the timer of the restart fires
StartThreadSafe ==
    \E i \in Due("start_thread_safe") :
        /\ app' = start_thread_safe(Cancelled(app, i))
        /\ ret' = [op |-> "start_thread_safe"]
        /\ NoEngine
        /\ UNCHANGED <<host, held, now>>

\* the timer of _start_thread fires; a new thread starts once the thread
\* started before it has ended
StartThread ==
    \E i \in Due("_start_thread") :
        LET a1 == Cancelled(app, i)
        IN  /\ app.worker = "idle"
            /\ app' = IF a1.has_event /\ ~a1.stop_set
                      THEN [a1 EXCEPT !.registered = TRUE, !.worker = "start"]
                      ELSE a1
            /\ ret' = [op |-> "_start_thread"]
            /\ NoEngine
            /\ UNCHANGED <<host, held, now>>

\* the thread runs start_hardware_updates up to the flag
WorkerStarts ==
    /\ app.worker = "start"
    /\ LET m == mark_started(app)
       IN  /\ app' = [m.app EXCEPT !.worker = IF m.skipped THEN "idle" ELSE "tick"]
           /\ Engine(m.built, FALSE, FALSE, <<0, 0>>)
    /\ ret' = [op |-> "start_hardware_updates"]
    /\ UNCHANGED <<host, held, now>>

\* the thread runs the _schedule_hardware_update call of line 3495 and ends
WorkerTicks ==
    /\ app.worker = "tick"
    /\ \E shown \in DisplayOutcomes, u \in GuiDraws :
        LET r == schedule_hardware_update(app, shown)
        IN  /\ app' = [r.app EXCEPT !.worker = "idle"]
            /\ Engine(FALSE, r.ran, r.full, u)
            /\ ret' = [op |-> "_schedule_hardware_update", by |-> "thread",
                       ran |-> r.ran, full |-> r.full]
    /\ UNCHANGED <<host, held, now>>

\* the timer of _schedule_hardware_update fires
ScheduleHardwareUpdate ==
    \E i \in Due("_schedule_hardware_update"), shown \in DisplayOutcomes, u \in GuiDraws :
        LET r == schedule_hardware_update(Cancelled(app, i), shown)
        IN  /\ app' = r.app
            /\ Engine(FALSE, r.ran, r.full, u)
            /\ ret' = [op |-> "_schedule_hardware_update", by |-> "timer",
                       ran |-> r.ran, full |-> r.full]
            /\ UNCHANGED <<host, held, now>>

\* 100 ms pass with no callback due
AdvanceTimers ==
    /\ app.timers # <<>>
    /\ \A i \in 1..Len(app.timers) : app.timers[i].left > 0
    /\ app' = [app EXCEPT !.timers =
                  [i \in 1..Len(@) |-> Timer(@[i].cb, @[i].left - 1)]]
    /\ UNCHANGED <<host, held, sensors, fan_status, cacheVars, now, ret>>

InitGui ==
    /\ host = GuiMachine
    /\ sensors = <<>>
    /\ fan_status = <<>>
    /\ last_cpu_check = 0
    /\ last_memory_check = 0
    /\ cached_cpu_percent = 0
    /\ cached_memory_percent = 0
    /\ now = StartTime
    /\ ret = [op |-> "App.__init__"]
    /\ held = [ref |-> "none"]
    /\ app = NoApp

\* the Tk main loop: due callbacks run, time passes
MainLoop ==
    \/ LoadHardwareMonitorBackground
    \/ StartThreadSafe
    \/ StartThread
    \/ ScheduleHardwareUpdate
    \/ AdvanceTimers

Worker == WorkerStarts \/ WorkerTicks

User == HardwareMonitorButtonEvent \/ HomeButtonEvent \/ RefreshHardwareMonitor

NextGui == User \/ MainLoop \/ Worker

SpecGui == InitGui /\ [][NextGui]_vars

\* the main loop keeps running and the thread is scheduled; the user is
\* free to do nothing
SpecGuiFair ==
    /\ SpecGui
    /\ WF_vars(LoadHardwareMonitorBackground)
    /\ WF_vars(StartThreadSafe)
    /\ WF_vars(StartThread)
    /\ WF_vars(ScheduleHardwareUpdate)
    /\ WF_vars(AdvanceTimers)
    /\ WF_vars(WorkerStarts)
    /\ WF_vars(WorkerTicks)

----------------------------------------------------------------------------
(* Claims about detection and refresh *)

\* the records of a returned map that carry a 'max' field
WithMax(d) == {i \in 1..Len(d) : "max" \in DOMAIN d[i].info}

\* C1: every sensor of a map returned by get_updated_sensors has its
\* 'current' inside its declared range; a sensor that carries a 'max' field
\* has current <= max.
C1_CurrentWithinMax ==
    ret.op = "get_updated_sensors" =>
        \A i \in WithMax(ret.sensors) :
            ret.sensors[i].info.current <= ret.sensors[i].info.max

\* C2: detect_all_sensors always returns a non-empty sensor map, whatever
\* the detectors find and whether or not the generator's queries succeed.
C2_DetectNonEmpty ==
    ret.op = "detect_all_sensors" => Len(ret.sensors) > 0

\* C3: a map returned by get_updated_sensors has exactly the keys of the
\* engine's sensor map, in the same number, and the engine's map is the one
\* the call found; also when the per-sensor computation raised.
C3_KeysPreserved ==
    ret.op = "get_updated_sensors" =>
        /\ Keys(ret.sensors) = Keys(sensors)
        /\ Len(ret.sensors) = Len(sensors)
        /\ sensors = ret.engine

\* a refresh of a map with real and simulated sensors during which
\* psutil.cpu_freq() and the utilisation queries raised, so that the CPU
\* package sensor fell back to its stored value while another sensor moved
C3_Witness ==
    /\ ret.op = "get_updated_sensors"
    /\ ret.o1.freq_raises
    /\ Has(sensors, <<"cpu", "package">>)
    /\ Has(sensors, <<"cpu", "package", "real">>)
    /\ Get(ret.sensors, <<"cpu", "package">>).current
           = Get(sensors, <<"cpu", "package">>).current
    /\ \E i \in 1..Len(sensors) :
           ret.sensors[i].info.current # sensors[i].info.current

\* C4: when the map holds the simulated gpu_core, gpu_hotspot and gpu_fan,
\* every map returned by get_updated_sensors has
\* gpu_hotspot >= gpu_core and gpu_fan <= gpu_core.
C4_GpuOrdering ==
    (/\ ret.op = "get_updated_sensors"
     /\ Has(ret.sensors, <<"gpu", "core">>)
     /\ Has(ret.sensors, <<"gpu", "hotspot">>)
     /\ Has(ret.sensors, <<"gpu", "fan">>))
    => /\ Get(ret.sensors, <<"gpu", "hotspot">>).current
              >= Get(ret.sensors, <<"gpu", "core">>).current
       /\ Get(ret.sensors, <<"gpu", "fan">>).current
              <= Get(ret.sensors, <<"gpu", "core">>).current

\* the places of the detection methods that returned
Returned(r) == (1..Len(r.found)) \ r.o.raises

\* the methods that returned the key k
Sources(r, k) == {i \in Returned(r) : Has(r.found[i], k)}

\* the keys the methods that returned found
FoundKeys(r) == UNION {Keys(r.found[i]) : i \in Returned(r)}

\* the largest and the smallest element of a non-empty set of numbers
Greatest(S) == CHOOSE x \in S : \A y \in S : y <= x

Least(S) == CHOOSE x \in S : \A y \in S : x <= y

\* C12: whichever detection methods raise, every sensor key returned by a
\* method that did not raise is in the map detect_all_sensors returns; the
\* methods after a raising one are still run.
C12_DetectorsIsolated ==
    ret.op = "detect_all_sensors" =>
        \A i \in Returned(ret) : Keys(ret.found[i]) \subseteq Keys(ret.sensors)

\* C12 witness: the first and the third method raised, the second, fourth
\* and fifth found sensors
C12_Witness ==
    /\ ret.op = "detect_all_sensors"
    /\ ret.o.raises = {1, 3}
    /\ Len(ret.found[2]) > 0
    /\ Len(ret.found[4]) > 0
    /\ Len(ret.found[5]) > 0

\* C13: the results are merged in the order of self.detection_methods: a key
\* returned by several methods carries the record of the last of them, a key
\* returned by one method carries that record, and the keys stand in the
\* order in which the methods first returned them.
C13_LastWriterWins ==
    ret.op = "detect_all_sensors" =>
        /\ \A k \in FoundKeys(ret) :
              Get(ret.sensors, k) = Get(ret.found[Greatest(Sources(ret, k))], k)
        /\ \A p \in 1..Len(ret.sensors), q \in 1..Len(ret.sensors) :
              (/\ p < q
               /\ ret.sensors[p].key \in FoundKeys(ret)
               /\ ret.sensors[q].key \in FoundKeys(ret))
              => Least(Sources(ret, ret.sensors[p].key))
                     <= Least(Sources(ret, ret.sensors[q].key))

\* C13 witness: the psutil method and the WMI method both returned disk_real
\* with different records, and the map carries the WMI one
C13_Witness ==
    /\ ret.op = "detect_all_sensors"
    /\ ret.o.raises = {}
    /\ Has(ret.found[1], <<"disk", "real">>)
    /\ Has(ret.found[2], <<"disk", "real">>)
    /\ Get(ret.found[1], <<"disk", "real">>) # Get(ret.found[2], <<"disk", "real">>)
    /\ Get(ret.sensors, <<"disk", "real">>).method = <<"WMI", "(Real", "HDD)">>

\* C14: the generator runs exactly when the merged map of the detection
\* methods has fewer than 5 sensors: then the result is that map with the
\* generated sensors added, every detected record kept; otherwise the
\* result is the merged map alone.
C14_FallbackBelowFive ==
    ret.op = "detect_all_sensors" =>
        LET merged == merge_detected(ret.found, ret.o.raises)
        IN  /\ Len(merged) >= 5 => ret.sensors = merged
            /\ Len(merged) < 5 =>
                  /\ Keys(ret.sensors) = Keys(merged) \cup Keys(ret.generated)
                  /\ \A k \in Keys(merged) : Get(ret.sensors, k) = Get(merged, k)
                  /\ \A k \in Keys(ret.generated) :
                        Get(ret.sensors, k) = Get(ret.generated, k)

\* C14 witness: four detected sensors, to which the generated ones were added
C14_Witness ==
    /\ ret.op = "detect_all_sensors"
    /\ Len(merge_detected(ret.found, ret.o.raises)) = 4
    /\ Len(ret.generated) > 20
    /\ Len(ret.sensors) = 4 + Len(ret.generated)

\* C15: a map handed to a caller is not changed by any later engine
\* operation: in every step other than the caller storing a new result, the
\* content of the map the caller holds stays what it was.
C15_ReturnedMapsAreCopies ==
    [][CallerKeeps \/ (held.ref # "none" => HeldMap' = HeldMap)]_vars

\* the _schedule_hardware_update callbacks that are pending as timers
PendingTicks ==
    Cardinality({i \in 1..Len(app.timers) :
                    app.timers[i].cb = "_schedule_hardware_update"})

\* C16: at every moment at most one _schedule_hardware_update callback is
\* pending or executing, whatever the order of tab switches, presses of
\* Refresh, restarts, timers and thread steps; in particular no two such
\* callbacks are pending as timers at once.
C16_SingleTickChain == PendingTicks <= 1

\* the last step was a tick that called get_updated_sensors and
\* get_fan_status
TickRan ==
    /\ ret.op \in {"_schedule_hardware_update", "_load_hardware_monitor_background"}
    /\ ret.full

\* C20: from every state in which the hardware monitor view is displayed
\* and the monitor has been created, a tick that calls get_updated_sensors
\* and get_fan_status eventually runs, unless the user leaves the view.
C20_TicksKeepOccurring ==
    (app.current_frame = HW /\ app.hardware_monitor_created)
        ~> (TickRan \/ app.current_frame # HW)




\* the records a hardware sensor query reported on the machine h: the
\* readings of psutil.sensors_temperatures (lines 133-148) and of the
\* thermal zones (lines 606-647)
Measured(h) == PsutilTemperatures(h) \o detect_thermal_sensors(h)

ReadFromHardware(h, e) == \E n \in 1..Len(Measured(h)) : Measured(h)[n] = e

\* C17: a sensor of the detected map whose method does not contain
\* 'Simulated' holds a value that a hardware sensor query reported; a value
\* computed from load, frequency or usage is tagged simulated.
C17_RealTagMeansMeasured ==
    ret.op = "detect_all_sensors" =>
        \A i \in 1..Len(ret.sensors) :
            ~IsSimulated(ret.sensors[i].info.method)
                => ReadFromHardware(host, ret.sensors[i])
----------------------------------------------------------------------------
(* Claims about the fan status model *)

\* the greatest value the thermal-zone parser accepts (line 631), which is
\* above every bound the other detectors and the generator clamp to
ThermalCeiling == 150000

\* C18: every sensor of the map returned by detect_all_sensors has
\* 0 <= current, current within the ceiling of its kind, and current <= max
\* where the record carries a 'max' field.
C18_CurrentWithinCeiling ==
    ret.op = "detect_all_sensors" =>
        \A i \in 1..Len(ret.sensors) :
            /\ ret.sensors[i].info.current >= 0
            /\ ret.sensors[i].info.current <= ThermalCeiling
            /\ i \in WithMax(ret.sensors) =>
                   ret.sensors[i].info.current <= ret.sensors[i].info.max

\* the step is a call of detect_all_sensors
DetectStep == ret.op # "detect_all_sensors" /\ ret'.op = "detect_all_sensors"

\* C19: a detect_all_sensors call under the same detector outcomes and OS
\* inputs yields the same key set whatever the draws, the engine's map is
\* the new result, so that a key of an earlier detection is there only if
\* this call found or generated it, and the call leaves the fans alone.
C19_Redetection ==
    /\ [](ret.op = "detect_all_sensors" =>
            /\ sensors = ret.sensors
            /\ \A j \in Draws({}) :
                  Keys(detect_all_sensors(host, ret.o, j)) = Keys(ret.sensors)
            /\ \A k \in ret.before_keys :
                  Has(sensors, k) =>
                      \/ \E m \in 1..Len(ret.found) :
                            m \notin ret.o.raises /\ Has(ret.found[m], k)
                      \/ Has(ret.generated, k))
    /\ [][DetectStep => fan_status' = fan_status]_vars

\* a re-detection that lost a key of the detection before it, after the
\* fans were changed
C19_Witness ==
    /\ ret.op = "detect_all_sensors"
    /\ \E k \in ret.before_keys : ~Has(sensors, k)
    /\ fan_status # initialize_fan_status



CacheOps == {"_get_cached_cpu_percent", "_get_cached_memory_percent"}

\* round(n / d) for n >= 0, d > 0, halves to the even neighbour as Python's round
RoundHalfEven(n, d) ==
    LET q == n \div d
        r == n % d
    IN  IF 2 * r > d \/ (2 * r = d /\ q % 2 = 1) THEN q + 1 ELSE q

\* C5: for every known fan id and every percent p in 0..100,
\* set_fan_speed(id, p) returns true and leaves current_speed = p and
\* current_rpm = round(p / 100 * max_rpm).
C5_SetFanSpeedRounds ==
    (ret.op = "set_fan_speed" /\ ret.fan_id \in DOMAIN fan_status
        /\ ret.speed_percent \in 0..100)
    => /\ ret.result = TRUE
       /\ fan_status[ret.fan_id].current_speed = ret.speed_percent
       /\ fan_status[ret.fan_id].current_rpm =
            RoundHalfEven(ret.speed_percent * fan_status[ret.fan_id].max_rpm, 100)

\* C6: set_fan_speed with a fan id that is not in the fan map returns false
\* and leaves the whole fan state (ids and every field) unchanged.
C6_UnknownFanRefused ==
    [][(ret'.op = "set_fan_speed" /\ ret'.fan_id \notin DOMAIN fan_status)
         => (ret'.result = FALSE /\ fan_status' = fan_status)]_vars

\* C6 witness: an unknown id was refused after the fans had left their
\* initial values
C6_Witness ==
    /\ ret.op = "set_fan_speed"
    /\ ret.fan_id = "nonexistent"
    /\ ret.result = FALSE
    /\ fan_status # initialize_fan_status
    /\ DOMAIN fan_status = DOMAIN initialize_fan_status

\* C7: in every reachable fan state each fan's status is the threshold
\* function of its current_speed (High above 80, Medium above 60, else Normal).
C7_StatusMatchesSpeed ==
    \A f \in DOMAIN fan_status :
        fan_status[f].status = StatusOf(fan_status[f].current_speed)

\* C8: in every reachable fan state, for every fan,
\* 0 <= current_rpm <= max_rpm and 0 <= current_speed <= 100, whatever
\* integer percent the caller passed to set_fan_speed / set_all_fans_speed.
C8_FanWithinBounds ==
    \A f \in DOMAIN fan_status :
        /\ 0 <= fan_status[f].current_rpm
        /\ fan_status[f].current_rpm <= fan_status[f].max_rpm
        /\ 0 <= fan_status[f].current_speed
        /\ fan_status[f].current_speed <= 100

----------------------------------------------------------------------------
(* Claims about the metric cache *)

\* the cached value and timestamp that belong to the call recorded in ret
CachedOf(op) ==
    IF op = "_get_cached_cpu_percent" THEN cached_cpu_percent
    ELSE cached_memory_percent

LastCheckOf(op) ==
    IF op = "_get_cached_cpu_percent" THEN last_cpu_check
    ELSE last_memory_check

\* C9 as stated: a call within cache_duration of the last successful query
\* returns the previous value and issues no query; a call made later issues
\* the query, stores the new value and sets the timestamp to the current time.
C9_Original ==
    ret.op \in CacheOps =>
        /\ ret.age <= cache_duration =>
              /\ ~ret.queried
              /\ ret.value = ret.prev
        /\ ret.age > cache_duration =>
              /\ ret.queried
              /\ CachedOf(ret.op) = ret.value
              /\ LastCheckOf(ret.op) = ret.at

\* C9 amended: a call within cache_duration of the last successful query
\* returns the previous value, issues no query and leaves the timestamp; a
\* call made later issues the query and, when the query succeeds, stores the
\* new value and sets the timestamp to the current time; when the query
\* raises, value and timestamp stay as they were.
C9_CacheWindow ==
    ret.op \in CacheOps =>
        /\ ret.value = CachedOf(ret.op)
        /\ ret.age <= cache_duration =>
              /\ ~ret.queried
              /\ ret.value = ret.prev
              /\ LastCheckOf(ret.op) = ret.at - ret.age
        /\ ret.age > cache_duration =>
              /\ ret.queried
              /\ ret.ok => LastCheckOf(ret.op) = ret.at
              /\ ~ret.ok => /\ ret.value = ret.prev
                            /\ LastCheckOf(ret.op) = ret.at - ret.age

\* C9 witness: a call later than the query it relies on, still inside the
\* window, returned the cached 100 without a query
C9_Witness ==
    /\ ret.op = "_get_cached_cpu_percent"
    /\ ret.age > 0
    /\ ret.age <= cache_duration
    /\ ~ret.queried
    /\ ret.value = 100

\* C10 as stated: the value a cache call returns was obtained from the OS at
\* most cache_duration before the call, also after failed queries.
C10_Original ==
    ret.op \in CacheOps => ret.at - LastCheckOf(ret.op) <= cache_duration

\* C10 amended: the value a cache call returns was obtained from the OS at
\* most cache_duration before the call, unless the query that this call
\* issued raised; then the last known value is returned whatever its age.
C10_FreshUnlessQueryFailed ==
    (ret.op \in CacheOps /\ ret.ok) =>
        ret.at - LastCheckOf(ret.op) <= cache_duration

\* C10 witness: a value of age cache_duration exactly was served from the cache
C10_Witness ==
    /\ ret.op = "_get_cached_cpu_percent"
    /\ ret.ok
    /\ ~ret.queried
    /\ ret.at - last_cpu_check = cache_duration
    /\ ret.value = 100

\* C11: when the underlying query fails inside a cache function, the call
\* does not raise; it returns the last successfully cached value (0 when no
\* query has ever succeeded) and leaves the cached value and the cached
\* timestamp as they were.
C11_FailureKeepsCache ==
    (ret.op \in CacheOps /\ ret.queried /\ ~ret.ok) =>
        /\ ~ret.raised
        /\ ret.value = ret.prev
        /\ CachedOf(ret.op) = ret.prev
        /\ LastCheckOf(ret.op) = ret.at - ret.age
        /\ LastCheckOf(ret.op) = 0 => ret.value = 0

\* C11 witness: a query failed after an earlier one had stored 100, and the
\* call returned that 100
C11_Witness ==
    /\ ret.op = "_get_cached_cpu_percent"
    /\ ret.queried
    /\ ~ret.ok
    /\ last_cpu_check > 0
    /\ ret.value = 100

----------------------------------------------------------------------------
(* Claims about the refresh tick *)

\* the observation under which the sensor at place i of the loop was refreshed
TickObs(r, i) == IF i <= r.split THEN r.o1 ELSE r.o2

\* the same stretch of the loop with psutil.cpu_freq() and
\* psutil.disk_io_counters() answering
Healthy(o) ==
    [o EXCEPT !.freq_raises = FALSE, !.disk_io = IF @ = -2 THEN -1 ELSE @]

\* the sensors of the loop recorded in r whose computation failed
FailedAt(r) ==
    {i \in 1..Len(r.engine) :
        \/ update_raises(host, r.engine[i].key, r.engine[i].info, TickObs(r, i))
        \/ storage_raises(host, r.engine[i].key, r.engine[i].info, TickObs(r, i))}

\* v is c plus a jitter of [-0.5, 0.5], clamped to [20, 100]
SmallJitterOf(c, v) ==
    /\ Clamp(20000, 100000, c - 500) <= v
    /\ v <= Clamp(20000, 100000, c + 500)

\* C21: a failure while computing one sensor's refreshed value affects only
\* that sensor: the returned map has an entry for every key, the failing
\* sensor's value is its last value plus a jitter of [-0.5, 0.5] clamped to
\* [20, 100], and every other sensor has the value it has when no
\* computation fails.
C21_FailureIsolated ==
    ret.op = "get_updated_sensors" =>
        LET good == get_updated_sensors(host, ret.engine, ret.caches, ret.at,
                                        ret.split, Healthy(ret.o1), Healthy(ret.o2),
                                        ret.j).sensors
        IN  /\ Len(ret.sensors) = Len(ret.engine)
            /\ \A i \in 1..Len(ret.engine) :
                  /\ ret.sensors[i].key = ret.engine[i].key
                  /\ i \in FailedAt(ret) =>
                        SmallJitterOf(ret.engine[i].info.current,
                                      ret.sensors[i].info.current)
                  /\ i \notin FailedAt(ret) => ret.sensors[i] = good[i]

\* C22: for every sensor whose method is not simulated, a refresh tick
\* returns the stored current value plus a jitter of at most 0.5 either way,
\* clamped to [20, 100], whatever the key of the sensor; no load-based
\* formula is applied to it.
C22_RealSensorsJitterOnly ==
    ret.op = "get_updated_sensors" =>
        \A i \in 1..Len(ret.engine) :
            ~IsSimulated(ret.engine[i].info.method) =>
                SmallJitterOf(ret.engine[i].info.current,
                              ret.sensors[i].info.current)

\* C23: for every simulated sensor key that _create_simulated_sensors
\* produces, the refresh branch that _update_simulated_sensor selects is the
\* one of that same sensor kind, and where generation clamps the kind, the
\* branch clamps to the same [min, max].
C23_RefreshMatchesGeneration ==
    ret.op = "detect_all_sensors" =>
        \A i \in 1..Len(ret.generated) :
            LET k == ret.generated[i].key
            IN  /\ update_branch(k) = generated_kind(k)
                /\ generated_clamp(generated_kind(k)) # <<>> =>
                       update_clamp(update_branch(k))
                           = generated_clamp(generated_kind(k))

\* C24: in every sensor set that _create_simulated_sensors produces, for
\* all loads and all draws, gpu_hotspot > gpu_core > gpu_memory and
\* gpu_fan < gpu_core.
C24_GpuGenerationOrdering ==
    (ret.op = "detect_all_sensors" /\ Has(ret.generated, <<"gpu", "core">>)) =>
        /\ Get(ret.generated, <<"gpu", "hotspot">>).current
               > Get(ret.generated, <<"gpu", "core">>).current
        /\ Get(ret.generated, <<"gpu", "core">>).current
               > Get(ret.generated, <<"gpu", "memory">>).current
        /\ Get(ret.generated, <<"gpu", "fan">>).current
               < Get(ret.generated, <<"gpu", "core">>).current

----------------------------------------------------------------------------
(* The thermal-zone parser on its own: lines 606-647 *)

\* the most lines of one PowerShell output
MaxLines == 2

\* a word of a value that is no number
Word == [num |-> FALSE, v |-> 0]

Num(v) == [num |-> TRUE, v |-> v]

\* lines of PowerShell output; a number is in thousandths of its unit
ThermalLineSamples ==
    {ThermalLine(<<"CurrentTemperature">>, 3032000),
     ThermalLine(<<"CurrentTemperature">>, 300000),
     ThermalLine(<<"Temperature">>, 45500),
     ThermalLine(<<"Temperature">>, 150000),
     ThermalLine(<<"CriticalTripPoint">>, 149900),
     ThermalLine(<<"CriticalTripPoint">>, 200000),
     ThermalLine(<<"PassiveTripPoint">>, 1000000),
     ThermalLine(<<"PassiveTripPoint">>, 2731000),
     ThermalLine(<<"Thermal", "Zone">>, 0),
     [colon |-> TRUE, name |-> <<"Status">>, value |-> <<Word>>],
     [colon |-> TRUE, name |-> <<"Reading">>,
      value |-> <<Word, Num(3100000), Num(20000)>>],
     [colon |-> FALSE, name |-> <<>>, value |-> <<Num(40000)>>]}

ThermalOutputs ==
    UNION {[1..n -> ThermalLineSamples] : n \in 0..MaxLines}

\* a call of _parse_thermal_output
ParseThermalOutput ==
    \E output \in ThermalOutputs,
       method_id \in {<<"thermal", "0">>, <<"thermal", "2">>} :
        /\ ret' = [op |-> "_parse_thermal_output", output |-> output,
                   method_id |-> method_id,
                   sensors |-> parse_thermal_output(output, method_id)]
        /\ UNCHANGED <<host, held, app, sensors, fan_status, cacheVars, now>>

InitThermal == InitOn({WindowsBox}, {QuietObservation}, {MidDraw})

SpecThermal == InitThermal /\ [][ParseThermalOutput]_vars

\* the place of the first numeric token of a value, 0 where there is none
FirstNumber(value) ==
    IF \A i \in 1..Len(value) : ~value[i].num THEN 0
    ELSE CHOOSE i \in 1..Len(value) : value[i].num /\ \A n \in 1..(i - 1) : ~value[n].num

\* the line l yields the sensor e under the method id: l has a colon and a
\* number; the first number is read as decikelvin above 1000, as kelvin
\* above 200 and up to 1000, as Celsius otherwise
YieldsSensor(l, id, e) ==
    /\ l.colon
    /\ FirstNumber(l.value) # 0
    /\ e.key = id \o l.name
    /\ LET v == l.value[FirstNumber(l.value)].v
       IN  /\ v > 1000000 => e.info.current = v \div 10 - 273150
           /\ (v > 200000 /\ v <= 1000000) => e.info.current = v - 273150
           /\ v <= 200000 => e.info.current = v

\* C25: every sensor that _parse_thermal_output emits comes from a
\* 'key: value' line whose first number was converted from decikelvin above
\* 1000 and from kelvin above 200, lies within 0..150 degrees Celsius and is
\* tagged non-simulated; and every line that yields a sensor when parsed
\* alone has its sensor in the result, whatever the other lines are.
C25_ThermalParsing ==
    ret.op = "_parse_thermal_output" =>
        /\ \A n \in 1..Len(ret.sensors) :
              /\ \E i \in 1..Len(ret.output) :
                    YieldsSensor(ret.output[i], ret.method_id, ret.sensors[n])
              /\ ret.sensors[n].info.current >= 0
              /\ ret.sensors[n].info.current <= 150000
              /\ ~IsSimulated(ret.sensors[n].info.method)
        /\ \A i \in 1..Len(ret.output) :
              Keys(parse_thermal_output(<<ret.output[i]>>, ret.method_id))
                  \subseteq Keys(ret.sensors)

\* C25 witness: a line without a number came first, and the line after it
\* gave a sensor converted from decikelvin
C25_Witness ==
    /\ ret.op = "_parse_thermal_output"
    /\ Len(ret.output) = 2
    /\ ret.output[1].colon
    /\ FirstNumber(ret.output[1].value) = 0
    /\ ret.output[2].value = <<Num(3032000)>>
    /\ Len(ret.sensors) = 1
    /\ ret.sensors[1].info.current = 30050

\* the OS queries of the tick recorded in ret
TickQueries ==
    count_queries(host, ret.engine, ret.caches, ret.at, ret.split, ret.o1, ret.o2)

\* C26: within one get_updated_sensors call, which takes less than the 2 s
\* of the cache, the CPU utilisation query and the memory utilisation query
\* are each issued at most once, for every number of sensors and whether
\* or not the query succeeds.
C26_OneQueryPerTick ==
    ret.op = "get_updated_sensors" =>
        /\ TickQueries.cpu <= 1
        /\ TickQueries.mem + TickQueries.direct <= 1

----------------------------------------------------------------------------
(* Claims about the fan refresh tick *)

\* C27: after every get_fan_status tick each fan has
\* 200 <= current_rpm <= max_rpm and 10 <= current_speed <= 100, for every
\* draw in the variation intervals of the cpu fan, the gpu fan and the case
\* fans.
C27_TickWithinBounds ==
    ret.op = "get_fan_status" =>
        \A f \in DOMAIN fan_status :
            /\ 200 <= fan_status[f].current_rpm
            /\ fan_status[f].current_rpm <= fan_status[f].max_rpm
            /\ 10 <= fan_status[f].current_speed
            /\ fan_status[f].current_speed <= 100

\* C27 witness: a tick with the lowest draws, where the cpu fan turns at
\* 260 RPM, which is 8 percent of its 3000, and its speed was raised to 10
C27_Witness ==
    /\ ret.op = "get_fan_status"
    /\ fan_status["cpu_fan"].current_rpm = 260
    /\ PyIntOfScaled(260, fan_status["cpu_fan"].max_rpm, 100) = 8
    /\ fan_status["cpu_fan"].current_speed = 10

----------------------------------------------------------------------------
(* Ticks after a detection: the stored map and the returned values *)

DriftMachines == {ColdBox, ThermalOnlyBox}

InitDrift == InitOn(DriftMachines, RefreshObservations, {MidDraw})

NextDrift ==
    \/ DetectAllSensors(RefreshObservations, {MidDraw})
    \/ GetUpdatedSensors
    \/ Return
    \/ Elapse

SpecDrift == InitDrift /\ [][NextDrift]_vars

\* the step is a call of get_updated_sensors
TickStep == ret'.op = "get_updated_sensors" /\ ret.op # "get_updated_sensors"

\* the sensors of the map S that are refreshed as stored value plus a draw
Carried(S) ==
    {i \in 1..Len(S) : update_jitter(branch_of(S[i].key, S[i].info)) # <<>>}

\* C28 as stated: get_updated_sensors leaves the engine's stored map as it
\* is, and after any number of ticks the returned value of a sensor that is
\* refreshed as stored value plus a draw lies within one draw of the value
\* stored by the last detect_all_sensors.
C28_Original ==
    /\ [](ret.op = "get_updated_sensors" =>
            \A i \in Carried(sensors) :
                LET jit == update_jitter(branch_of(sensors[i].key, sensors[i].info))
                IN  /\ sensors[i].info.current + jit[1] <= ret.sensors[i].info.current
                    /\ ret.sensors[i].info.current <= sensors[i].info.current + jit[2])
    /\ [][TickStep => sensors' = sensors]_vars

\* C28 amended: get_updated_sensors leaves the engine's stored map as it
\* is, and after any number of ticks the returned value of a sensor that is
\* refreshed as stored value plus a draw is the value stored by the last
\* detect_all_sensors plus one draw, clamped to the range of its refresh
\* branch, or that stored value itself when the computation failed.
C28_NoDrift ==
    /\ [](ret.op = "get_updated_sensors" =>
            \A i \in Carried(sensors) :
                LET b   == branch_of(sensors[i].key, sensors[i].info)
                    jit == update_jitter(b)
                    c   == sensors[i].info.current
                    v   == ret.sensors[i].info.current
                IN  \/ v = c
                    \/ /\ Clamp(clamp_of(b)[1], clamp_of(b)[2], c + jit[1]) <= v
                       /\ v <= Clamp(clamp_of(b)[1], clamp_of(b)[2], c + jit[2]))
    /\ [][TickStep => sensors' = sensors]_vars

\* C28 witness: a tick later than the tick that filled the cache returned
\* 20.0 for the real sensor stored at 16.8, and a simulated motherboard
\* sensor within its draw of the stored value
C28_Witness ==
    /\ ret.op = "get_updated_sensors"
    /\ ret.caches.last_cpu_check >= StartTime
    /\ ret.at > ret.caches.last_cpu_check
    /\ Get(sensors, <<"psutil", "acpitz", "0">>).current = 16800
    /\ Get(ret.sensors, <<"psutil", "acpitz", "0">>).current = 20000
    /\ Has(sensors, <<"motherboard">>)
    /\ Get(ret.sensors, <<"motherboard">>).current
           # Get(sensors, <<"motherboard">>).current

\* C29: a get_fan_status tick recomputes current_rpm and current_speed of
\* every fan from max_rpm and the draws only: the fan map after the tick is
\* the one the tick makes of the freshly initialised fans under the same
\* draws, whatever set_fan_speed stored before; the tick changes neither
\* the set of fan ids nor any max_rpm.
C29_TickForgetsSetSpeed ==
    /\ [](ret.op = "get_fan_status" =>
            \E u1 \in UniformPositions, u2 \in UniformPositions :
                fan_status = update_fan_status_real_time(initialize_fan_status, u1, u2))
    /\ [][ret'.op = "get_fan_status" =>
            /\ DOMAIN fan_status' = DOMAIN fan_status
            /\ \A f \in DOMAIN fan_status :
                  fan_status'[f].max_rpm = fan_status[f].max_rpm]_vars

\* C29 witness: the tick found the cpu fan at the 90 percent and 2700 RPM
\* that set_fan_speed had stored, and left it at no more than 60 percent
C29_Witness ==
    /\ ret.op = "get_fan_status"
    /\ ret.before["cpu_fan"].current_speed = 90
    /\ ret.before["cpu_fan"].current_rpm = 2700
    /\ fan_status["cpu_fan"].current_speed <= 60
    /\ fan_status["cpu_fan"].current_rpm < 2700

\* C30: immediately after a get_fan_status tick on the five fans of the
\* engine (max_rpm 3000, 3500, 2000, 2000, 2000) every fan's current_speed
\* is at most 60 and every fan's status is "Normal": a tick produces
\* neither "Medium" nor "High".
C30_TickAlwaysNormal ==
    ret.op = "get_fan_status" =>
        /\ [f \in DOMAIN fan_status |-> fan_status[f].max_rpm]
             = [cpu_fan |-> 3000, gpu_fan |-> 3500, case_fan_1 |-> 2000,
                case_fan_2 |-> 2000, case_fan_3 |-> 2000]
        /\ \A f \in DOMAIN fan_status :
              /\ fan_status[f].current_speed <= 60
              /\ fan_status[f].status = "Normal"
              /\ fan_status[f].status \notin {"Medium", "High"}

\* C30 witness: a tick with the highest draws, after the cpu fan had been
\* set to 90 percent: the cpu fan turns at 1160 RPM (38 percent), the gpu
\* fan at 1410 (40 percent) and the case fans at 1010 (50 percent)
C30_Witness ==
    /\ ret.op = "get_fan_status"
    /\ ret.before["cpu_fan"].current_speed = 90
    /\ fan_status["cpu_fan"].current_rpm = 1160
    /\ fan_status["cpu_fan"].current_speed = 38
    /\ fan_status["gpu_fan"].current_rpm = 1410
    /\ fan_status["gpu_fan"].current_speed = 40
    /\ \A f \in {"case_fan_1", "case_fan_2", "case_fan_3"} :
          /\ fan_status[f].current_rpm = 1010
          /\ fan_status[f].current_speed = 50
    /\ \A f \in DOMAIN fan_status : fan_status[f].status = "Normal"

====
